---- MODULE Spec2Model ----
(***************************************************************************)
(* RedDoor: slug generation, city / channel / post creation against the    *)
(* managed store, the reading views and the PostList feed with its         *)
(* comments, vote counting, the schema's authorization rules, formatDate.  *)
(*                                                                         *)
(* Strings are sequences of Unicode code points (97 = 'a', 66 = 'B',       *)
(* 55 = '7', 32 = ' ', 9 = TAB, 45 = '-', 33 = '!', 233 = e-acute).        *)
(*                                                                         *)
(* A record lists its fields in the order in which the field names first   *)
(* occur in this module, which is the order TLC keeps them in: a record    *)
(* value is then in normal form from its construction.                     *)
(***************************************************************************)
EXTENDS Integers, Sequences, FiniteSets, TLC

VARIABLES
    \* --- generateSlug run on its own (SpecSlug) ---
    name,        \* the input string
    slug,        \* the string generateSlug returned
    slugPc,      \* "input" | "done"
    \* --- the managed store ---
    locations,   \* Location table: sequence of rows [id, slug, isActive]
    channels,    \* Channel table: sequence of rows [id, locationId, slug]
    posts,       \* Post table: sequence of rows
    \* --- one browser session per client ---
    route,       \* client -> [screen, citySlug, channelSlug]
    formData,    \* client -> formData.name of the mounted create form
    location,    \* client -> id of the Location CreateChannel loaded, or None
    locationLoading, \* client -> BOOLEAN (CreateChannel)
    pc,          \* client -> "idle" | "listing" | "creating": the running handleSubmit
    cslug,       \* client -> the const slug of the running handleSubmit
    cloc,        \* client -> location.id read by the running handleSubmit
    loading,     \* client -> BOOLEAN
    error,       \* client -> message or None
    \* --- one PostList component ---
    props,       \* [locationId, channelId] of the mounted PostList
    feedPc,      \* "mounted" | "listing" | "settled"
    feed,        \* the posts state of PostList (sequence of summaries)
    feedLoading, \* the loading state of PostList
    feedError,   \* the error state of PostList
    \* --- the comments of one post in that PostList ---
    comments,    \* Comment table: sequence of rows
    expanded,    \* expandedPosts.has(postId)
    commentsOf,  \* the comments state: postId -> sequence of summaries
    comFetches,  \* number of fetchComments calls awaiting Comment.list
    newComments, \* the newComments state: postId -> draft text
    comPc,       \* "idle" | "creating": the running handleCommentSubmit
    viewer,      \* user of useAuthenticator in PostList: an id, or None
    ccomment,    \* the Comment.create input of the running handleCommentSubmit
    \* --- authentication of each browser session ---
    user,        \* client -> the signed-in user's id, or None
    cuser,       \* client -> the identity the create call in flight was sent with
    \* --- CreatePost, per browser session (with route, location = locationData,
    \*     locationLoading = dataLoading, loading, error, pc) ---
    postForm,    \* client -> formData: [title, content, linkUrl, linkTitle, linkDescription]
    postType,    \* client -> "text" | "link", or None (no toggle selected)
    postChannels, \* client -> the channels state: sequence of [id, slug]
    selectedChannel, \* client -> a channel id, or None ("")
    fetches,     \* client -> the fetchLocationAndChannels calls in flight
    cpostData,   \* client -> the postData of the running handleSubmit
    \* --- the Score Aggregator ---
    votes,       \* Vote table: sequence of rows
    calls,       \* the castVote calls the store has not yet applied
    reply,       \* what the last castVote applied returned
    \* --- formatDate run on its own (SpecDates) ---
    diff,        \* the age now - date: [sec, ms], diffInMs = 1000 * sec + ms
    formatted,   \* what formatDate returned
    datePc,      \* "input" | "done"
    \* --- the authorization rules of the schema (SpecAccess) ---
    gate,        \* the last request decided: [caller, op, model, owner, verdict]
    \* --- the reading views, per browser session (SpecBrowse) ---
    seen,        \* client -> [view, arg, data, fault, refused]: what the view mounted last loaded
    \* --- PostList again: overlapping fetchPosts calls, and the comment counts ---
    feedCalls,   \* the props each fetchPosts call in flight was started with
    commentCounts \* post id -> the commentCount of the post as PostList shows it

slugVars  == <<name, slug, slugPc>>
storeVars == <<locations, channels>>
formVars  == <<route, formData, location, locationLoading, pc, cslug, cloc, loading, error>>
feedVars  == <<posts, props, feedPc, feed, feedLoading, feedError>>
commentVars == <<comments, expanded, commentsOf, comFetches, newComments, comPc, viewer, ccomment>>
authVars  == <<user, cuser>>
postVars  == <<postForm, postType, postChannels, selectedChannel, fetches, cpostData>>
voteVars  == <<votes, calls, reply>>
dateVars  == <<diff, formatted, datePc>>
lateVars  == <<dateVars, gate, seen, feedCalls, commentCounts>>
moreVars  == <<commentVars, postVars, voteVars, lateVars>>
vars      == <<slugVars, storeVars, formVars, feedVars, moreVars, authVars>>

\* null / undefined of an id or a string (no id and no string equals it)
None == <<-1>>

\* null of the error state
NoError == "null"

\* The ids of the registered users.
UserIds == {<<1>>}

---------------------------------------------------------------------------
(* Bounds *)

MaxNameLen == 4

Alphabet == {97, 66, 55, 32, 9, 45, 33, 233}

RECURSIVE StringsUpTo(_)
StringsUpTo(n) ==
    IF n = 0 THEN {<<>>}
    ELSE LET shorter == StringsUpTo(n - 1)
         IN  shorter \cup {Append(s, c) : s \in {t \in shorter : Len(t) = n - 1}, c \in Alphabet}

---------------------------------------------------------------------------
(* JavaScript string primitives used by generateSlug *)

\* The characters matched by \s, which are also those String.prototype.trim strips.
WhiteSpace ==
    {9, 10, 11, 12, 13, 32, 160, 5760, 8232, 8233, 8239, 8287, 12288, 65279}
        \cup (8192..8202)

IsSpace(c) == c \in WhiteSpace

IsHyphen(c) == c = 45

\* [a-z0-9\s-]
IsSlugInput(c) == c \in 97..122 \/ c \in 48..57 \/ IsSpace(c) \/ IsHyphen(c)

\* String.prototype.toLowerCase on one character (ASCII and Latin-1 capitals).
LowerChar(c) ==
    IF c \in 65..90 THEN c + 32
    ELSE IF c \in 192..222 /\ c # 215 THEN c + 32
    ELSE c

ToLowerCase(s) == [i \in 1..Len(s) |-> LowerChar(s[i])]

\* s.replace(/<class>+/g, "-"): every maximal run of the class becomes one '-'.
ReplaceRuns(s, class) ==
    LET F[i \in 0..Len(s)] ==
            IF i = 0 THEN <<>>
            ELSE IF s[i] \in class
                 THEN IF i > 1 /\ s[i - 1] \in class THEN F[i - 1]
                      ELSE Append(F[i - 1], 45)
                 ELSE Append(F[i - 1], s[i])
    IN  F[Len(s)]

\* The first replace with its character class narrowed to [^a-z\s-]: digits are
\* stripped too.
StripInvalidAndDigits(s) ==
    SelectSeq(s, LAMBDA c : IsSlugInput(c) /\ c \notin 48..57)

\* .replace(/[^a-z0-9\s-]/g, "")
StripInvalid(s) == SelectSeq(s, IsSlugInput)

\* .replace(/\s+/g, "-")
WhitespaceToHyphen(s) == ReplaceRuns(s, WhiteSpace)

\* .replace(/-+/g, "-")
CollapseHyphens(s) == ReplaceRuns(s, {45})

\* String.prototype.trim: strips white space (not '-') from both ends.
Trim(s) ==
    LET keep == {i \in 1..Len(s) : ~IsSpace(s[i])}
    IN  IF keep = {} THEN <<>>
        ELSE LET lo == CHOOSE i \in keep : \A j \in keep : i <= j
                 hi == CHOOSE i \in keep : \A j \in keep : j <= i
             IN  SubSeq(s, lo, hi)

\* The steps in another order: runs of '-' are collapsed before white space
\* becomes '-'.
generateSlugCollapsingFirst(n) ==
    Trim(WhitespaceToHyphen(CollapseHyphens(StripInvalid(ToLowerCase(n)))))

\* generateSlug of CreateCity and CreateChannel (the two copies are the same text).
generateSlug(n) ==
    Trim(CollapseHyphens(WhitespaceToHyphen(StripInvalid(ToLowerCase(n)))))

---------------------------------------------------------------------------
(* SpecSlug: generateSlug applied to every name up to MaxNameLen *)

IdleStore ==
    /\ locations = <<>>
    /\ channels = <<>>

IdleForms ==
    /\ route = <<>>
    /\ formData = <<>>
    /\ location = <<>>
    /\ locationLoading = <<>>
    /\ pc = <<>>
    /\ cslug = <<>>
    /\ cloc = <<>>
    /\ loading = <<>>
    /\ error = <<>>

IdleFeed ==
    /\ posts = <<>>
    /\ props = <<>>
    /\ feedPc = "off"
    /\ feed = <<>>
    /\ feedLoading = FALSE
    /\ feedError = NoError

IdleSlug ==
    /\ name = <<>>
    /\ slug = <<>>
    /\ slugPc = "off"

IdleComments ==
    /\ comments = <<>>
    /\ expanded = FALSE
    /\ commentsOf = <<>>
    /\ comFetches = 0
    /\ newComments = <<>>
    /\ comPc = "off"
    /\ viewer = None
    /\ ccomment = None

IdleAuth ==
    /\ user = <<>>
    /\ cuser = <<>>

IdlePost ==
    /\ postForm = <<>>
    /\ postType = <<>>
    /\ postChannels = <<>>
    /\ selectedChannel = <<>>
    /\ fetches = <<>>
    /\ cpostData = <<>>

IdleVotes ==
    /\ votes = <<>>
    /\ calls = {}
    /\ reply = <<>>

IdleDates ==
    /\ diff = <<>>
    /\ formatted = <<>>
    /\ datePc = "done"

IdleGate == gate = <<>>

IdleBrowse == seen = <<>>

IdleCounts == feedCalls = {} /\ commentCounts = <<>>

IdleLate == IdleDates /\ IdleGate /\ IdleBrowse /\ IdleCounts

IdleMore == IdleComments /\ IdlePost /\ IdleVotes /\ IdleLate

InitSlug ==
    /\ name \in StringsUpTo(MaxNameLen)
    /\ slug = <<>>
    /\ slugPc = "input"
    /\ IdleStore /\ IdleForms /\ IdleAuth /\ IdleFeed /\ IdleMore

RunGenerateSlug ==
    /\ slugPc = "input"
    /\ slug' = generateSlug(name)
    /\ slugPc' = "done"
    /\ UNCHANGED <<name, storeVars, formVars, feedVars, moreVars, authVars>>

NextSlug == RunGenerateSlug

SpecSlug == InitSlug /\ [][NextSlug]_vars

---------------------------------------------------------------------------
(* Claims about generateSlug, checked under SpecSlug *)

IsAsciiAlnum(c) == c \in 97..122 \/ c \in 65..90 \/ c \in 48..57

\* A letter or digit in the usual sense: ASCII or accented Latin-1.
IsLetterOrDigit(c) ==
    IsAsciiAlnum(c) \/ (c \in 192..255 /\ c # 215 /\ c # 247)

\* C1: the slug returned by generateSlug never begins or ends with '-'.
SlugHasNoEdgeHyphen ==
    slugPc = "done" =>
        \/ slug = <<>>
        \/ ~IsHyphen(slug[1]) /\ ~IsHyphen(slug[Len(slug)])

SlugCharsetAndShape ==
    /\ \A i \in 1..Len(slug) : slug[i] \in 97..122 \/ slug[i] \in 48..57 \/ slug[i] = 45
    /\ \A i \in 1..Len(slug) : ~IsSpace(slug[i])
    /\ \A i \in 1..(Len(slug) - 1) : ~(slug[i] = 45 /\ slug[i + 1] = 45)

\* C2 as stated: the slug holds only [a-z0-9-], no white space and no "--", and
\* every letter or digit of the name survives, lower-cased, in its original order.
SlugKeepsEveryLetterAndDigit ==
    slugPc = "done" =>
        /\ SlugCharsetAndShape
        /\ SelectSeq(slug, IsLetterOrDigit)
               = SelectSeq(ToLowerCase(name), IsLetterOrDigit)

\* C2 amended: the slug holds only [a-z0-9-], no white space and no "--", and
\* every ASCII letter or digit of the name survives, lower-cased, in its original
\* order (letters outside A-Z and a-z are dropped).
SlugKeepsAsciiLettersAndDigits ==
    slugPc = "done" =>
        /\ SlugCharsetAndShape
        /\ SelectSeq(slug, IsAsciiAlnum)
               = SelectSeq(ToLowerCase(name), IsAsciiAlnum)

SlugMixedNameDone ==
    /\ slugPc = "done"
    /\ name = <<66, 33, 32, 55>>
    /\ slug = <<98, 45, 55>>

---------------------------------------------------------------------------
(* The managed store, as the components use it.  A list call answers with    *)
(* one page of the rows matching its filter; no component passes nextToken.  *)

PageSize == 2

MaxLocations == 2

MaxChannels == 2

Clients == {"c1", "c2"}

\* "", "A", "b", "~"
FormNames == {<<>>, <<65>>, <<98>>, <<126>>}

\* "", "MI"
FormStates == {<<>>, <<77, 73>>}

RouteSlugs == {generateSlug(n) : n \in FormNames} \ {<<>>}

FirstPage(rows) ==
    SubSeq(rows, 1, IF Len(rows) < PageSize THEN Len(rows) ELSE PageSize)

\* Location.list({ filter: { slug: { eq: slug } } })
ListLocationsBySlug(s) ==
    FirstPage(SelectSeq(locations, LAMBDA r : r.slug = s))

\* Location.list({ filter: { slug: { eq: citySlug }, isActive: { eq: true } } })
ListActiveLocationsBySlug(s) ==
    FirstPage(SelectSeq(locations, LAMBDA r : r.slug = s /\ r.isActive))

\* Channel.list with the locationId condition of the filter left out.
ListChannelsBySlugAnywhere(s, l) ==
    FirstPage(SelectSeq(channels, LAMBDA r : r.slug = s))

\* Channel.list({ filter: { slug: { eq: slug }, locationId: { eq: location.id } } })
ListChannelsBySlugAndLocation(s, l) ==
    FirstPage(SelectSeq(channels, LAMBDA r : r.slug = s /\ r.locationId = l))

\* existing.data.length > 1 in place of > 0
HasTwoRows(data) == Len(data) > 1

\* existing.data && existing.data.length > 0
HasRows(data) == Len(data) > 0

---------------------------------------------------------------------------
(* CreateCity and CreateChannel *)

CityNameRequired    == "City name is required"
StateRequired       == "State is required"
CityExists          == "A city with this name already exists. Please choose a different name."
CityCreateFailed    == "Failed to create city. Please try again."
CityNotFound        == "City not found"
CityLoadFailed      == "Failed to load city information"
ChannelNameRequired == "Channel name is required"
LocationNotFound    == "Location not found"
ChannelExists       == "A channel with this name already exists in this city. Please choose a different name."
ChannelCreateFailed == "Failed to create channel. Please try again."

Route(scr, city, chan) == [screen |-> scr, citySlug |-> city, channelSlug |-> chan]

InitForms ==
    /\ route = [c \in Clients |-> Route("landing", None, None)]
    /\ formData = [c \in Clients |-> <<>>]
    /\ location = [c \in Clients |-> None]
    /\ locationLoading = [c \in Clients |-> FALSE]
    /\ pc = [c \in Clients |-> "idle"]
    /\ cslug = [c \in Clients |-> None]
    /\ cloc = [c \in Clients |-> None]
    /\ loading = [c \in Clients |-> FALSE]
    /\ error = [c \in Clients |-> NoError]
    /\ user = [c \in Clients |-> CHOOSE u \in UserIds : TRUE]
    /\ cuser = [c \in Clients |-> None]

Init ==
    /\ locations = <<>>
    /\ channels = <<>>
    /\ InitForms
    /\ IdleSlug /\ IdleFeed /\ IdleMore

\* withAuthenticator renders the wrapped create screen only for a signed-in user
\* (the sign-in form takes its place otherwise).
SignedIn(c) == user[c] # None

\* allow.authenticated().to(["create"]) / allow.owner(): the store writes a row
\* only for a call sent with a signed-in identity.
Authenticated(who) == who \in UserIds

\* No request of the client's mounted component is in flight.
Quiet(c) == pc[c] = "idle" /\ ~locationLoading[c]

\* The create form of the client's screen is rendered and its inputs enabled.
FormShown(c) ==
    /\ route[c].screen \in {"createCity", "createChannel"}
    /\ SignedIn(c)
    /\ ~loading[c]
    /\ route[c].screen = "createChannel" =>
           ~locationLoading[c] /\ ~(error[c] # NoError /\ location[c] = None)

InFlight(scr) == Cardinality({d \in Clients : route[d].screen = scr /\ pc[d] # "idle"})

\* <Route path="/create-city" element={<CreateCity />} />
OpenCreateCity(c) ==
    /\ Quiet(c)
    /\ route[c].screen # "createCity"
    /\ route' = [route EXCEPT ![c] = Route("createCity", None, None)]
    /\ formData' = [formData EXCEPT ![c] = <<>>]
    /\ location' = [location EXCEPT ![c] = None]
    /\ locationLoading' = [locationLoading EXCEPT ![c] = FALSE]
    /\ loading' = [loading EXCEPT ![c] = FALSE]
    /\ error' = [error EXCEPT ![c] = NoError]
    /\ UNCHANGED <<pc, cslug, cloc, storeVars, slugVars, feedVars, moreVars, authVars>>

\* <Route path="/city/:citySlug/create-channel" ...>: mount, and the effect
\* starts fetchLocation (setLocationLoading(true)).
OpenCreateChannel(c, s) ==
    /\ Quiet(c)
    /\ route[c] # Route("createChannel", s, None)
    /\ route' = [route EXCEPT ![c] = Route("createChannel", s, None)]
    /\ formData' = [formData EXCEPT ![c] = <<>>]
    /\ location' = [location EXCEPT ![c] = None]
    /\ locationLoading' = [locationLoading EXCEPT ![c] = SignedIn(c)]
    /\ loading' = [loading EXCEPT ![c] = FALSE]
    /\ error' = [error EXCEPT ![c] = NoError]
    /\ UNCHANGED <<pc, cslug, cloc, storeVars, slugVars, feedVars, moreVars, authVars>>

\* fetchLocation, from the answer of Location.list on
FetchLocationResp(c) ==
    /\ route[c].screen = "createChannel"
    /\ locationLoading[c]
    /\ LET data == ListActiveLocationsBySlug(route[c].citySlug)
       IN  IF Len(data) = 0
           THEN /\ error' = [error EXCEPT ![c] = CityNotFound]
                /\ UNCHANGED location
           ELSE /\ location' = [location EXCEPT ![c] = data[1].id]
                /\ UNCHANGED error
    /\ locationLoading' = [locationLoading EXCEPT ![c] = FALSE]
    /\ UNCHANGED <<route, formData, pc, cslug, cloc, loading, storeVars, slugVars, feedVars, moreVars, authVars>>

\* fetchLocation when Location.list answers without data or throws
FetchLocationFails(c, how) ==
    /\ route[c].screen = "createChannel"
    /\ locationLoading[c]
    /\ error' = [error EXCEPT ![c] = IF how = "nodata" THEN CityNotFound ELSE CityLoadFailed]
    /\ locationLoading' = [locationLoading EXCEPT ![c] = FALSE]
    /\ UNCHANGED <<route, formData, location, pc, cslug, cloc, loading, storeVars, slugVars, feedVars, moreVars, authVars>>

\* The name field accepts input whatever the loading flag says.
HandleInputChangeAlways(c, v) ==
    /\ route[c].screen \in {"createCity", "createChannel"}
    /\ v # formData[c]
    /\ formData' = [formData EXCEPT ![c] = v]
    /\ UNCHANGED <<route, location, locationLoading, pc, cslug, cloc, loading, error,
                   storeVars, slugVars, feedVars, moreVars, authVars>>

\* handleInputChange("name", v); the TextField is disabled while loading
HandleInputChange(c, v) ==
    /\ FormShown(c)
    /\ v # formData[c]
    /\ formData' = [formData EXCEPT ![c] = v]
    /\ UNCHANGED <<route, location, locationLoading, pc, cslug, cloc, loading, error,
                   storeVars, slugVars, feedVars, moreVars, authVars>>

\* The end of a handleSubmit without the finally block.
FinishWithoutFinally(c, msg) ==
    /\ error' = [error EXCEPT ![c] = msg]
    /\ UNCHANGED loading
    /\ pc' = [pc EXCEPT ![c] = "idle"]
    /\ cslug' = [cslug EXCEPT ![c] = None]
    /\ cloc' = [cloc EXCEPT ![c] = None]
    /\ cuser' = [cuser EXCEPT ![c] = None]

\* The end of a handleSubmit: setError(msg) where one is set, and finally
\* setLoading(false)
Finish(c, msg) ==
    /\ error' = [error EXCEPT ![c] = msg]
    /\ loading' = [loading EXCEPT ![c] = FALSE]
    /\ pc' = [pc EXCEPT ![c] = "idle"]
    /\ cslug' = [cslug EXCEPT ![c] = None]
    /\ cloc' = [cloc EXCEPT ![c] = None]
    /\ cuser' = [cuser EXCEPT ![c] = None]

\* CreateCity.handleSubmit up to the first await (Location.list is sent)
CitySubmit(c, st) ==
    /\ route[c].screen = "createCity"
    /\ pc[c] = "idle"
    /\ FormShown(c)
    /\ Len(locations) + InFlight("createCity") < MaxLocations
    /\ IF Trim(formData[c]) = <<>>
       THEN /\ error' = [error EXCEPT ![c] = CityNameRequired]
            /\ UNCHANGED <<pc, cslug, loading>>
       ELSE IF Trim(st) = <<>>
       THEN /\ error' = [error EXCEPT ![c] = StateRequired]
            /\ UNCHANGED <<pc, cslug, loading>>
       ELSE /\ loading' = [loading EXCEPT ![c] = TRUE]
            /\ error' = [error EXCEPT ![c] = NoError]
            /\ cslug' = [cslug EXCEPT ![c] = generateSlug(formData[c])]
            /\ pc' = [pc EXCEPT ![c] = "listing"]
    /\ UNCHANGED <<route, formData, location, locationLoading, cloc, storeVars, slugVars, feedVars, moreVars, authVars>>

\* CreateCity.handleSubmit from the answer of Location.list to the next await
CityListResp(c) ==
    /\ route[c].screen = "createCity"
    /\ pc[c] = "listing"
    /\ IF HasRows(ListLocationsBySlug(cslug[c]))
       THEN Finish(c, CityExists)
       ELSE /\ pc' = [pc EXCEPT ![c] = "creating"]
            /\ cuser' = [cuser EXCEPT ![c] = user[c]]
            /\ UNCHANGED <<cslug, cloc, loading, error>>
    /\ UNCHANGED <<route, formData, location, locationLoading, storeVars, slugVars, feedVars, moreVars, user>>

\* ... when Location.list answers with errors and no data, or throws
CityListFails(c, how) ==
    /\ route[c].screen = "createCity"
    /\ pc[c] = "listing"
    /\ IF how = "nodata"
       THEN /\ pc' = [pc EXCEPT ![c] = "creating"]
            /\ cuser' = [cuser EXCEPT ![c] = user[c]]
            /\ UNCHANGED <<cslug, cloc, loading, error>>
       ELSE Finish(c, CityCreateFailed)
    /\ UNCHANGED <<route, formData, location, locationLoading, storeVars, slugVars, feedVars, moreVars, user>>

\* CreateCity.handleSubmit from the answer of Location.create on: the row is
\* written, the client navigates to /city/<slug>
CityCreateResp(c) ==
    /\ route[c].screen = "createCity"
    /\ pc[c] = "creating"
    /\ Authenticated(cuser[c])
    /\ locations' = Append(locations,
           [slug |-> cslug[c], isActive |-> TRUE, id |-> <<Len(locations) + 1>>,
            owner |-> cuser[c]])
    /\ route' = [route EXCEPT ![c] = Route("cityView", cslug[c], None)]
    /\ formData' = [formData EXCEPT ![c] = <<>>]
    /\ Finish(c, NoError)
    /\ UNCHANGED <<channels, location, locationLoading, slugVars, feedVars, moreVars, user>>

\* ... when Location.create answers without data (throw response) or throws
CityCreateFails(c, how) ==
    /\ route[c].screen = "createCity"
    /\ pc[c] = "creating"
    /\ Finish(c, CityCreateFailed)
    /\ UNCHANGED <<route, formData, location, locationLoading, storeVars, slugVars, feedVars, moreVars, user>>

\* CreateChannel.handleSubmit up to the first await (Channel.list is sent)
ChannelSubmit(c) ==
    /\ route[c].screen = "createChannel"
    /\ pc[c] = "idle"
    /\ FormShown(c)
    /\ Len(channels) + InFlight("createChannel") < MaxChannels
    /\ IF Trim(formData[c]) = <<>>
       THEN /\ error' = [error EXCEPT ![c] = ChannelNameRequired]
            /\ UNCHANGED <<pc, cslug, cloc, loading>>
       ELSE IF location[c] = None
       THEN /\ error' = [error EXCEPT ![c] = LocationNotFound]
            /\ UNCHANGED <<pc, cslug, cloc, loading>>
       ELSE /\ loading' = [loading EXCEPT ![c] = TRUE]
            /\ error' = [error EXCEPT ![c] = NoError]
            /\ cslug' = [cslug EXCEPT ![c] = generateSlug(formData[c])]
            /\ cloc' = [cloc EXCEPT ![c] = location[c]]
            /\ pc' = [pc EXCEPT ![c] = "listing"]
    /\ UNCHANGED <<route, formData, location, locationLoading, storeVars, slugVars, feedVars, moreVars, authVars>>

\* CreateChannel.handleSubmit from the answer of Channel.list to the next await
ChannelListResp(c) ==
    /\ route[c].screen = "createChannel"
    /\ pc[c] = "listing"
    /\ IF HasRows(ListChannelsBySlugAndLocation(cslug[c], cloc[c]))
       THEN Finish(c, ChannelExists)
       ELSE /\ pc' = [pc EXCEPT ![c] = "creating"]
            /\ cuser' = [cuser EXCEPT ![c] = user[c]]
            /\ UNCHANGED <<cslug, cloc, loading, error>>
    /\ UNCHANGED <<route, formData, location, locationLoading, storeVars, slugVars, feedVars, moreVars, user>>

\* ... when Channel.list answers with errors and no data, or throws
ChannelListFails(c, how) ==
    /\ route[c].screen = "createChannel"
    /\ pc[c] = "listing"
    /\ IF how = "nodata"
       THEN /\ pc' = [pc EXCEPT ![c] = "creating"]
            /\ cuser' = [cuser EXCEPT ![c] = user[c]]
            /\ UNCHANGED <<cslug, cloc, loading, error>>
       ELSE Finish(c, ChannelCreateFailed)
    /\ UNCHANGED <<route, formData, location, locationLoading, storeVars, slugVars, feedVars, moreVars, user>>

\* CreateChannel.handleSubmit from the answer of Channel.create on: the row is
\* written, the client navigates to /city/<citySlug>/channel/<slug>
ChannelCreateResp(c) ==
    /\ route[c].screen = "createChannel"
    /\ pc[c] = "creating"
    /\ Authenticated(cuser[c])
    /\ channels' = Append(channels,
           [slug |-> cslug[c], isActive |-> TRUE, locationId |-> cloc[c],
            id |-> <<Len(channels) + 1>>, createdBy |-> cuser[c], memberCount |-> 0,
            postCount |-> 0])
    /\ route' = [route EXCEPT ![c] = Route("channelView", route[c].citySlug, cslug[c])]
    /\ formData' = [formData EXCEPT ![c] = <<>>]
    /\ location' = [location EXCEPT ![c] = None]
    /\ Finish(c, NoError)
    /\ UNCHANGED <<locations, locationLoading, slugVars, feedVars, moreVars, user>>

\* ... when Channel.create answers without data (nothing is reported) or throws
ChannelCreateFails(c, how) ==
    /\ route[c].screen = "createChannel"
    /\ pc[c] = "creating"
    /\ Finish(c, IF how = "nodata" THEN NoError ELSE ChannelCreateFailed)
    /\ UNCHANGED <<route, formData, location, locationLoading, storeVars, slugVars, feedVars, moreVars, user>>

Faults == {"nodata", "throw"}

\* The steps of CreateCity in which the store answers with data.
AnsweringCity(c) ==
    \/ OpenCreateCity(c)
    \/ \E v \in FormNames : HandleInputChange(c, v)
    \/ \E st \in FormStates : CitySubmit(c, st)
    \/ CityListResp(c)
    \/ CityCreateResp(c)

\* The steps of CreateChannel in which the store answers with data.
AnsweringChannel(c) ==
    \/ \E s \in RouteSlugs : OpenCreateChannel(c, s)
    \/ FetchLocationResp(c)
    \/ \E v \in FormNames : HandleInputChange(c, v)
    \/ ChannelSubmit(c)
    \/ ChannelListResp(c)
    \/ ChannelCreateResp(c)

FailingCity(c) ==
    \/ \E how \in Faults : CityListFails(c, how)
    \/ \E how \in Faults : CityCreateFails(c, how)

FailingChannel(c) ==
    \/ \E how \in Faults : FetchLocationFails(c, how)
    \/ \E how \in Faults : ChannelListFails(c, how)
    \/ \E how \in Faults : ChannelCreateFails(c, how)

Next ==
    \E c \in Clients :
        AnsweringCity(c) \/ AnsweringChannel(c) \/ FailingCity(c) \/ FailingChannel(c)

\* Clients creating cities and channels concurrently; store calls may fail.
Spec == Init /\ [][Next]_vars

NextCity == \E c \in Clients : AnsweringCity(c) \/ FailingCity(c)

\* Clients creating cities concurrently; store calls may fail.
SpecCity == Init /\ [][NextCity]_vars

\* No other client has a handleSubmit running.
Alone(c) == \A d \in Clients \ {c} : pc[d] = "idle"

NextCityAlone ==
    \E c \in Clients :
        \/ Alone(c) /\ OpenCreateCity(c)
        \/ \E v \in FormNames : Alone(c) /\ HandleInputChange(c, v)
        \/ \E st \in FormStates : Alone(c) /\ CitySubmit(c, st)
        \/ Alone(c) /\ CityListResp(c)
        \/ Alone(c) /\ CityCreateResp(c)

\* One CreateCity.handleSubmit at a time, every store call answers with data.
SpecCityAlone == Init /\ [][NextCityAlone]_vars

\* A store that already holds the cities "a" and "b".
InitTwoCities ==
    /\ locations = << [slug |-> <<97>>, isActive |-> TRUE, id |-> <<1>>, owner |-> <<1>>],
                      [slug |-> <<98>>, isActive |-> TRUE, id |-> <<2>>, owner |-> <<1>>] >>
    /\ channels = <<>>
    /\ InitForms
    /\ IdleSlug /\ IdleFeed /\ IdleMore

NextChannel == \E c \in Clients : AnsweringChannel(c)

NextAnswering == \E c \in Clients : AnsweringCity(c) \/ AnsweringChannel(c)

\* Clients creating cities and channels concurrently, every store call answers
\* with data.
SpecAnswering == Init /\ [][NextAnswering]_vars

\* Clients creating channels concurrently, every store call answers with data.
SpecChannel == InitTwoCities /\ [][NextChannel]_vars

---------------------------------------------------------------------------
(* Claims about city and channel creation *)

LocationSlugTaken(s) == \E i \in 1..Len(locations) : locations[i].slug = s

ChannelSlugTaken(s, l) ==
    \E i \in 1..Len(channels) : channels[i].slug = s /\ channels[i].locationId = l

\* C3: a creation request whose name produces an empty slug fails (InvalidName),
\* so no Location and no Channel with an empty-string slug is ever in the store.
EmptySlugNeverStored ==
    /\ \A i \in 1..Len(locations) : locations[i].slug # <<>>
    /\ \A i \in 1..Len(channels) : channels[i].slug # <<>>

SiblingSlugsUnique ==
    /\ \A i, j \in 1..Len(locations) :
           locations[i].slug = locations[j].slug => i = j
    /\ \A i, j \in 1..Len(channels) :
           ( /\ channels[i].slug = channels[j].slug
             /\ channels[i].locationId = channels[j].locationId ) => i = j

\* C7: the slug of the URL preview, generateSlug(formData.name), is the slug the
\* running submit uses for its uniqueness check, the slug stored on the created
\* Location and the slug of the URL navigated to.
PreviewSlugIsStoredSlug ==
    /\ [](\A c \in Clients : pc[c] # "idle" => cslug[c] = generateSlug(formData[c]))
    /\ [][\A c \in Clients :
              ( /\ pc[c] = "creating"
                /\ pc'[c] = "idle"
                /\ Len(locations') > Len(locations) )
              => /\ locations'[Len(locations')].slug = generateSlug(formData[c])
                 /\ route'[c].citySlug = generateSlug(formData[c])]_vars

CityCreatedAndOpened ==
    \E c \in Clients :
        /\ route[c] = Route("cityView", <<97>>, None)
        /\ LocationSlugTaken(<<97>>)
        /\ \E d \in Clients : pc[d] = "listing" /\ formData[d] = <<98>>

---------------------------------------------------------------------------
(* PostList: fetchPosts over a stable dataset *)

MaxPosts == 3

\* A channel and the location it belongs to.
Homes == { [locationId |-> <<1>>, channelId |-> <<1>>],
           [locationId |-> <<2>>, channelId |-> <<2>>] }

PostAttrs == [home : Homes, isActive : BOOLEAN, score : {0, 1}, createdAt : {1, 2}]

PostRow(i, a) ==
    [isActive |-> a.isActive, locationId |-> a.home.locationId, id |-> <<i>>,
     channelId |-> a.home.channelId, score |-> a.score, createdAt |-> a.createdAt]

\* Every Post table of up to MaxPosts rows, in any scan order.
PostTables ==
    { [i \in DOMAIN f |-> PostRow(i, f[i])] :
          f \in UNION { [1..k -> PostAttrs] : k \in 0..MaxPosts } }

\* The props PostList is mounted with: all, one location, a channel (with a
\* locationId that is not the channel's, so precedence shows).
Scopes == { [locationId |-> None, channelId |-> None],
            [locationId |-> <<1>>, channelId |-> None],
            [locationId |-> <<1>>, channelId |-> <<2>>] }

\* The filter without the isActive condition.
PostFilterAnyActivity(r, p) ==
    IF p.channelId # None THEN r.channelId = p.channelId
    ELSE IF p.locationId # None THEN r.locationId = p.locationId
    ELSE TRUE

\* filter = { isActive: { eq: true } }, plus channelId if given, else locationId
\* if given
PostFilter(r, p) ==
    /\ r.isActive
    /\ IF p.channelId # None THEN r.channelId = p.channelId
       ELSE IF p.locationId # None THEN r.locationId = p.locationId
       ELSE TRUE

\* Post.list({ filter, authMode: "apiKey" })
ListPosts(p) == FirstPage(SelectSeq(posts, LAMBDA r : PostFilter(r, p)))

\* new Date(createdAt).getTime(): createdAt counts seconds, getTime milliseconds
GetTime(t) == t * 1000

\* The comparator with the date operands swapped (oldest first among equals).
ComparePostsOldestFirst(a, b) ==
    IF a.score # b.score THEN b.score - a.score
    ELSE GetTime(a.createdAt) - GetTime(b.createdAt)

\* The comparator of postData.sort
ComparePosts(a, b) ==
    IF a.score # b.score THEN b.score - a.score
    ELSE GetTime(b.createdAt) - GetTime(a.createdAt)

\* Array.prototype.sort (stable) with ComparePosts
RECURSIVE SortPosts(_)
SortPosts(seq) ==
    IF seq = <<>> THEN <<>>
    ELSE LET n == Len(seq)
             x == seq[n]
             rest == SortPosts(SubSeq(seq, 1, n - 1))
             later == {i \in 1..Len(rest) : ComparePosts(x, rest[i]) < 0}
             at == IF later = {} THEN Len(rest) + 1
                   ELSE CHOOSE i \in later : \A j \in later : i <= j
         IN  SubSeq(rest, 1, at - 1) \o <<x>> \o SubSeq(rest, at, Len(rest))

\* The summary fetchPosts builds for one row (score is post.score || 0).
PostSummary(r) == [id |-> r.id, score |-> r.score, createdAt |-> r.createdAt]

FetchFailed == "Failed to load posts. Please try again."

\* (await post.comments({ authMode: "apiKey" })).data.length || 0: every comment
\* of the post's first page, active or not
CommentCountOf(postId) ==
    Len(FirstPage(SelectSeq(comments, LAMBDA r : r.postId = postId)))

\* The commentCount of each entry of postData
CountsOf(data) ==
    [id \in {data[i].id : i \in 1..Len(data)} |-> CommentCountOf(id)]

InitFeed ==
    /\ posts \in PostTables
    /\ props \in Scopes
    /\ feedPc = "mounted"
    /\ feed = <<>>
    /\ feedLoading = TRUE
    /\ feedError = NoError
    /\ IdleSlug /\ IdleStore /\ IdleForms /\ IdleAuth /\ IdleMore

\* useEffect -> fetchPosts up to the await of Post.list
FetchPostsStart ==
    /\ feedPc = "mounted"
    /\ feedLoading' = TRUE
    /\ feedPc' = "listing"
    /\ UNCHANGED <<posts, props, feed, feedError, slugVars, storeVars, formVars, moreVars, authVars>>

\* fetchPosts from the answer of Post.list on: summaries, sort, setPosts
FetchPostsResp ==
    /\ feedPc = "listing"
    /\ LET data == ListPosts(props)
           postData == [i \in 1..Len(data) |-> PostSummary(data[i])]
       IN  /\ feed' = SortPosts(postData)
           /\ commentCounts' = CountsOf(data)
    /\ feedLoading' = FALSE
    /\ feedPc' = "settled"
    /\ UNCHANGED <<posts, props, feedError, slugVars, storeVars, formVars, commentVars,
                   postVars, voteVars, dateVars, gate, seen, feedCalls, authVars>>

\* fetchPosts when Post.list answers without data, or a store call throws
FetchPostsFails(how) ==
    /\ feedPc = "listing"
    /\ feedError' = IF how = "throw" THEN FetchFailed ELSE feedError
    /\ feedLoading' = FALSE
    /\ feedPc' = "failed"
    /\ UNCHANGED <<posts, props, feed, slugVars, storeVars, formVars, moreVars, authVars>>

NextFeed ==
    \/ FetchPostsStart
    \/ FetchPostsResp
    \/ \E how \in Faults : FetchPostsFails(how)

SpecFeed == InitFeed /\ [][NextFeed]_vars

---------------------------------------------------------------------------
(* Claims about the feed *)

PostOf(id) == CHOOSE r \in {posts[j] : j \in 1..Len(posts)} : r.id = id

\* The scope rule: the channel if one is given, else the location if one is
\* given, else everything.
InScope(r) ==
    /\ props.channelId # None => r.channelId = props.channelId
    /\ (props.channelId = None /\ props.locationId # None)
           => r.locationId = props.locationId

\* C8: the feed holds only Posts of the store that are active and in scope
\* (the channelId if given, else the locationId if given, else any).
FeedOnlyActiveInScope ==
    \A i \in 1..Len(feed) :
        /\ \E j \in 1..Len(posts) : posts[j].id = feed[i].id
        /\ PostOf(feed[i].id).isActive
        /\ InScope(PostOf(feed[i].id))

FeedLeavesOutInactiveAndForeign ==
    /\ feedPc = "settled"
    /\ Len(feed) >= 1
    /\ props = [locationId |-> <<1>>, channelId |-> <<2>>]
    /\ \E j \in 1..Len(posts) : ~posts[j].isActive /\ posts[j].channelId = <<2>>
    /\ \E j \in 1..Len(posts) : posts[j].isActive /\ posts[j].locationId = <<1>>

\* C9: the feed is ordered by score descending and, among equal scores, by
\* createdAt descending.
FeedOrdered ==
    \A i \in 1..(Len(feed) - 1) :
        \/ feed[i].score > feed[i + 1].score
        \/ /\ feed[i].score = feed[i + 1].score
           /\ feed[i].createdAt >= feed[i + 1].createdAt

FeedTieBrokenByNewest ==
    /\ feedPc = "settled"
    /\ Len(feed) = 2
    /\ feed[1].id = <<2>> /\ feed[2].id = <<1>>
    /\ feed[1].score = feed[2].score
    /\ feed[1].createdAt > feed[2].createdAt

\* C10: once fetchPosts has delivered, the feed holds every active Post of the
\* scope exactly once, however many there are.
FeedHoldsEveryActivePost ==
    feedPc = "settled" =>
        LET wanted == {posts[j].id : j \in {k \in 1..Len(posts) :
                                              posts[k].isActive /\ InScope(posts[k])}}
        IN  /\ {feed[i].id : i \in 1..Len(feed)} = wanted
            /\ Len(feed) = Cardinality(wanted)

---------------------------------------------------------------------------
(* PostList: the comments of one post over a stable dataset *)

MaxComments == 3

MaxFetches == 2

\* The post whose comments section is toggled.
ThePost == <<1>>

CommentAttrs ==
    [postId : {<<1>>, <<2>>}, isActive : BOOLEAN, score : {0, 1}, createdAt : {1, 2}]

CommentRow(i, a) ==
    [isActive |-> a.isActive, id |-> <<i>>, score |-> a.score, createdAt |-> a.createdAt,
     postId |-> a.postId, parentCommentId |-> None]

\* Every Comment table of up to MaxComments top-level comments, in any scan order.
CommentTables ==
    { [i \in DOMAIN f |-> CommentRow(i, f[i])] :
          f \in UNION { [1..k -> CommentAttrs] : k \in 0..MaxComments } }

\* Comment.list({ filter: { postId: { eq: postId }, isActive: { eq: true } } })
ListComments(postId) ==
    FirstPage(SelectSeq(comments, LAMBDA r : r.postId = postId /\ r.isActive))

\* The comparator ordering by date alone.
CompareCommentsByDate(a, b) == GetTime(a.createdAt) - GetTime(b.createdAt)

\* The comparator of commentData.sort
CompareComments(a, b) ==
    IF a.score # b.score THEN b.score - a.score
    ELSE GetTime(a.createdAt) - GetTime(b.createdAt)

\* Array.prototype.sort (stable) with CompareComments
RECURSIVE SortComments(_)
SortComments(seq) ==
    IF seq = <<>> THEN <<>>
    ELSE LET n == Len(seq)
             x == seq[n]
             rest == SortComments(SubSeq(seq, 1, n - 1))
             later == {i \in 1..Len(rest) : CompareComments(x, rest[i]) < 0}
             at == IF later = {} THEN Len(rest) + 1
                   ELSE CHOOSE i \in later : \A j \in later : i <= j
         IN  SubSeq(rest, 1, at - 1) \o <<x>> \o SubSeq(rest, at, Len(rest))

\* The summary fetchComments builds for one row (score is comment.score || 0).
CommentSummary(r) == [id |-> r.id, score |-> r.score, createdAt |-> r.createdAt]

InitComments ==
    /\ comments \in CommentTables
    /\ expanded = FALSE
    /\ commentsOf = <<>>
    /\ comFetches = 0
    /\ newComments = <<>>
    /\ comPc = "idle"
    /\ viewer = None
    /\ ccomment = None
    /\ IdleSlug /\ IdleStore /\ IdleForms /\ IdleAuth /\ IdleFeed /\ IdlePost /\ IdleVotes /\ IdleLate

\* toggleComments(postId): collapse, or expand and, while comments[postId] is
\* undefined, start fetchComments
ToggleComments ==
    /\ IF expanded
       THEN /\ expanded' = FALSE
            /\ UNCHANGED comFetches
       ELSE /\ expanded' = TRUE
            /\ IF ThePost \notin DOMAIN commentsOf
               THEN comFetches < MaxFetches /\ comFetches' = comFetches + 1
               ELSE UNCHANGED comFetches
    /\ UNCHANGED <<comments, commentsOf, newComments, comPc, viewer, ccomment,
                   slugVars, storeVars, formVars, feedVars, authVars, postVars, voteVars, lateVars>>

\* fetchComments from the answer of Comment.list on: summaries, sort, setComments
FetchCommentsResp ==
    /\ comFetches > 0
    /\ LET data == ListComments(ThePost)
           commentData == [i \in 1..Len(data) |-> CommentSummary(data[i])]
       IN  commentsOf' = (ThePost :> SortComments(commentData))
    /\ comFetches' = comFetches - 1
    /\ UNCHANGED <<comments, expanded, newComments, comPc, viewer, ccomment,
                   slugVars, storeVars, formVars, feedVars, authVars, postVars, voteVars, lateVars>>

\* fetchComments when Comment.list answers without data, or a store call throws:
\* nothing is set
FetchCommentsFails(how) ==
    /\ comFetches > 0
    /\ comFetches' = comFetches - 1
    /\ UNCHANGED <<comments, expanded, commentsOf, newComments, comPc, viewer, ccomment,
                   slugVars, storeVars, formVars, feedVars, authVars, postVars, voteVars, lateVars>>

NextComments ==
    \/ ToggleComments
    \/ FetchCommentsResp
    \/ \E how \in Faults : FetchCommentsFails(how)

\* One PostList showing the comments of a post whose rows do not change.
SpecComments == InitComments /\ [][NextComments]_vars

---------------------------------------------------------------------------
(* Claims about the comment list *)

Loaded == ThePost \in DOMAIN commentsOf

Shown == commentsOf[ThePost]

\* C11 as stated: the comments returned by fetchComments are ordered by score
\* descending and, among equal scores, by createdAt with the newest first.
CommentsNewestFirstAmongEqual ==
    Loaded =>
        \A i \in 1..(Len(Shown) - 1) :
            \/ Shown[i].score > Shown[i + 1].score
            \/ /\ Shown[i].score = Shown[i + 1].score
               /\ Shown[i].createdAt >= Shown[i + 1].createdAt

\* C11 amended: the comments returned by fetchComments are ordered by score
\* descending and, among equal scores, by createdAt with the oldest first.
CommentsOldestFirstAmongEqual ==
    Loaded =>
        \A i \in 1..(Len(Shown) - 1) :
            \/ Shown[i].score > Shown[i + 1].score
            \/ /\ Shown[i].score = Shown[i + 1].score
               /\ Shown[i].createdAt <= Shown[i + 1].createdAt

CommentTieBrokenByOldest ==
    /\ Loaded
    /\ Len(Shown) = 2
    /\ Shown[1].id = <<2>> /\ Shown[2].id = <<1>>
    /\ Shown[1].score = Shown[2].score
    /\ Shown[1].createdAt < Shown[2].createdAt

---------------------------------------------------------------------------
(* PostList: the comments of a post that holds replies (parentCommentId set) *)

ThreadAttrs ==
    [parent : {None} \cup {<<k>> : k \in 1..MaxComments},
     isActive : BOOLEAN, score : {0, 1}]

ThreadRow(i, a) ==
    [isActive |-> a.isActive, id |-> <<i>>, score |-> a.score, createdAt |-> i,
     postId |-> ThePost, parentCommentId |-> a.parent]

\* Every Comment table of up to MaxComments comments of the post, written one
\* after the other, each top-level or a reply to some comment id.
ThreadTables ==
    { [i \in DOMAIN f |-> ThreadRow(i, f[i])] :
          f \in UNION { [1..k -> ThreadAttrs] : k \in 0..MaxComments } }

InitThreads ==
    /\ comments \in ThreadTables
    /\ expanded = FALSE
    /\ commentsOf = <<>>
    /\ comFetches = 0
    /\ newComments = <<>>
    /\ comPc = "idle"
    /\ viewer = None
    /\ ccomment = None
    /\ IdleSlug /\ IdleStore /\ IdleForms /\ IdleAuth /\ IdleFeed /\ IdlePost /\ IdleVotes /\ IdleLate

\* One PostList showing the comments of a post with replies.
SpecThreads == InitThreads /\ [][NextComments]_vars

\* The nesting level a comment card is rendered at: all cards are items of one
\* flat Collection.
DisplayDepth(n) == 0

---------------------------------------------------------------------------
(* Claims about replies *)

\* The active comments of the post, as ids.
ActiveIds ==
    {comments[j].id : j \in {k \in 1..Len(comments) :
                               comments[k].postId = ThePost /\ comments[k].isActive}}

CommentOf(id) == CHOOSE r \in {comments[j] : j \in 1..Len(comments)} : r.id = id

ParentOf(id) == CommentOf(id).parentCommentId

\* The n-th ancestor of a comment, or None where the chain has ended or left the
\* active comments of the post.
RECURSIVE AncestorAt(_, _)
AncestorAt(id, n) ==
    IF n = 0 THEN id
    ELSE LET below == AncestorAt(id, n - 1)
         IN  IF below = None \/ below \notin ActiveIds THEN None ELSE ParentOf(below)

\* Some parentCommentId chain of the active comments comes back to where it began.
HasCycle ==
    \E id \in ActiveIds : \E n \in 1..Len(comments) : AncestorAt(id, n) = id

\* Every parentCommentId of an active comment names an active comment of the
\* post, and no chain comes back to where it began.
IsForest ==
    /\ \A id \in ActiveIds : ParentOf(id) = None \/ ParentOf(id) \in ActiveIds
    /\ ~HasCycle

\* The length of the ancestor chain of a comment of a forest.
ChainLength(id) ==
    Cardinality({n \in 1..Len(comments) : AncestorAt(id, n) # None})

Descendants(id) ==
    {d \in ActiveIds \ {id} : \E n \in 1..Len(comments) : AncestorAt(d, n) = id}

\* C12: for a post whose active comments form a forest, the sequence produced for
\* display is depth-first (every comment is immediately followed by its full
\* reply subtree) and each node is shown at a depth equal to the length of its
\* ancestor chain.
ThreadShownDepthFirst ==
    (Loaded /\ IsForest) =>
        \A i \in 1..Len(Shown) :
            LET below == Descendants(Shown[i].id)
                size == Cardinality(below)
            IN  /\ i + size <= Len(Shown)
                /\ {Shown[j].id : j \in (i + 1)..(i + size)} = below
                /\ DisplayDepth(Shown[i]) = ChainLength(Shown[i].id)

\* C13: when the comment set holds a parentCommentId chain that revisits an
\* ancestor, building the list fails (CycleDetected): no list is returned.
CyclicThreadYieldsNoList ==
    HasCycle => ~Loaded

---------------------------------------------------------------------------
(* CreatePost *)

PostTitleRequired   == "Post title is required"
PostContentRequired == "Post content is required for text posts"
LinkUrlRequired     == "Link URL is required for link posts"
ChannelRequired     == "Please select a channel for your post"
PostCreateFailed    == "Failed to create post. Please try again."
LocationLoadFailed  == "Failed to load location information"

PostFields == {"title", "content", "linkUrl", "linkTitle", "linkDescription"}

\* "", " ", " x"
PostTexts == {<<>>, <<32>>, <<32, 120>>}

BlankForm == [f \in PostFields |-> <<>>]

\* The useState initial values of CreatePost.
InitPost ==
    /\ postForm = [c \in Clients |-> BlankForm]
    /\ postType = [c \in Clients |-> "text"]
    /\ postChannels = [c \in Clients |-> <<>>]
    /\ selectedChannel = [c \in Clients |-> None]
    /\ fetches = [c \in Clients |-> {}]
    /\ cpostData = [c \in Clients |-> None]

\* The closure of one fetchLocationAndChannels call.
Fetch(city, chan, stage, loc) ==
    [citySlug |-> city, channelSlug |-> chan, stage |-> stage, loc |-> loc]

\* Channel.list({ filter: { locationId: { eq: location.id }, isActive: { eq: true } } })
ListActiveChannelsOf(l) ==
    FirstPage(SelectSeq(channels, LAMBDA r : r.locationId = l /\ r.isActive))

\* Leaving or entering the screen: every useState of CreatePost at its initial value.
ResetPost(c) ==
    /\ postForm' = [postForm EXCEPT ![c] = BlankForm]
    /\ postType' = [postType EXCEPT ![c] = "text"]
    /\ postChannels' = [postChannels EXCEPT ![c] = <<>>]
    /\ selectedChannel' = [selectedChannel EXCEPT ![c] = None]
    /\ location' = [location EXCEPT ![c] = None]

\* <Route path="/city/:citySlug/create-post" ...> and
\* <Route path="/city/:citySlug/channel/:channelSlug/create-post" ...>.
\* Arriving mounts CreatePost; a change of citySlug or channelSlug while it is
\* mounted keeps its state.  Either way the effect runs fetchLocationAndChannels.
OpenCreatePost(c, city, chan) ==
    /\ pc[c] = "idle"
    /\ route[c] # Route("createPost", city, chan)
    /\ Cardinality(fetches[c]) < MaxFetches
    /\ route' = [route EXCEPT ![c] = Route("createPost", city, chan)]
    /\ IF route[c].screen = "createPost" /\ SignedIn(c)
       THEN /\ fetches' = [fetches EXCEPT ![c] = @ \cup {Fetch(city, chan, "location", None)}]
            /\ UNCHANGED <<postForm, postType, postChannels, selectedChannel, location,
                           loading, error>>
       ELSE /\ ResetPost(c)
            /\ loading' = [loading EXCEPT ![c] = FALSE]
            /\ error' = [error EXCEPT ![c] = NoError]
            /\ fetches' = [fetches EXCEPT ![c] =
                   IF SignedIn(c) THEN {Fetch(city, chan, "location", None)} ELSE {}]
    /\ locationLoading' = [locationLoading EXCEPT ![c] = TRUE]
    /\ UNCHANGED <<formData, pc, cslug, cloc, cpostData, storeVars, slugVars, feedVars,
                   commentVars, authVars, voteVars, lateVars>>

\* fetchLocationAndChannels from the answer of Location.list to the next await
PostLocationResp(c, f) ==
    /\ route[c].screen = "createPost"
    /\ f \in fetches[c]
    /\ f.stage = "location"
    /\ LET data == ListActiveLocationsBySlug(f.citySlug)
       IN  IF Len(data) = 0
           THEN /\ error' = [error EXCEPT ![c] = CityNotFound]
                /\ locationLoading' = [locationLoading EXCEPT ![c] = FALSE]
                /\ fetches' = [fetches EXCEPT ![c] = @ \ {f}]
                /\ UNCHANGED location
           ELSE /\ location' = [location EXCEPT ![c] = data[1].id]
                /\ fetches' = [fetches EXCEPT ![c] =
                       (@ \ {f}) \cup {Fetch(f.citySlug, f.channelSlug, "channels", data[1].id)}]
                /\ UNCHANGED <<error, locationLoading>>
    /\ UNCHANGED <<route, formData, pc, cslug, cloc, loading, postForm, postType,
                   postChannels, selectedChannel, cpostData, storeVars, slugVars, feedVars,
                   commentVars, authVars, voteVars, lateVars>>

\* channelData.find((c) => c.slug === channelSlug): the first match, or None
FindChannel(channelData, chan) ==
    LET hits == {i \in 1..Len(channelData) : channelData[i].slug = chan}
    IN  IF hits = {} THEN None
        ELSE channelData[CHOOSE i \in hits : \A j \in hits : i <= j].id

\* fetchLocationAndChannels from the answer of Channel.list on
PostChannelsResp(c, f) ==
    /\ route[c].screen = "createPost"
    /\ f \in fetches[c]
    /\ f.stage = "channels"
    /\ LET data == ListActiveChannelsOf(f.loc)
           channelData == [i \in 1..Len(data) |-> [slug |-> data[i].slug, id |-> data[i].id]]
           currentChannel == FindChannel(channelData, f.channelSlug)
       IN  /\ postChannels' = [postChannels EXCEPT ![c] = channelData]
           /\ IF f.channelSlug # None /\ currentChannel # None
              THEN selectedChannel' = [selectedChannel EXCEPT ![c] = currentChannel]
              ELSE UNCHANGED selectedChannel
    /\ locationLoading' = [locationLoading EXCEPT ![c] = FALSE]
    /\ fetches' = [fetches EXCEPT ![c] = @ \ {f}]
    /\ UNCHANGED <<route, formData, location, pc, cslug, cloc, loading, error, postForm,
                   postType, cpostData, storeVars, slugVars, feedVars, commentVars, authVars, voteVars, lateVars>>

\* fetchLocationAndChannels when a list call answers without data, or throws
PostFetchFails(c, f, how) ==
    /\ route[c].screen = "createPost"
    /\ f \in fetches[c]
    /\ error' = [error EXCEPT ![c] =
           IF how = "throw" THEN LocationLoadFailed
           ELSE IF f.stage = "location" THEN CityNotFound
           ELSE @]
    /\ locationLoading' = [locationLoading EXCEPT ![c] = FALSE]
    /\ fetches' = [fetches EXCEPT ![c] = @ \ {f}]
    /\ UNCHANGED <<route, formData, location, pc, cslug, cloc, loading, postForm, postType,
                   postChannels, selectedChannel, cpostData, storeVars, slugVars, feedVars,
                   commentVars, authVars, voteVars, lateVars>>

\* The form of CreatePost is rendered.
PostFormShown(c) ==
    /\ route[c].screen = "createPost"
    /\ SignedIn(c)
    /\ ~locationLoading[c]
    /\ ~(error[c] # NoError /\ location[c] = None)

\* The options of the Channel SelectField: "" and every channel of the state.
ChannelOptions(c) ==
    {None} \cup {postChannels[c][i].id : i \in 1..Len(postChannels[c])}

\* setSelectedChannel(e.target.value); the field is rendered while channels is
\* not empty and disabled while loading or on a channel route
SelectChannel(c, v) ==
    /\ PostFormShown(c)
    /\ Len(postChannels[c]) > 0
    /\ ~loading[c]
    /\ route[c].channelSlug = None
    /\ v \in ChannelOptions(c)
    /\ v # selectedChannel[c]
    /\ selectedChannel' = [selectedChannel EXCEPT ![c] = v]
    /\ UNCHANGED <<route, formData, location, locationLoading, pc, cslug, cloc, loading,
                   error, postForm, postType, postChannels, fetches, cpostData, storeVars,
                   slugVars, feedVars, commentVars, authVars, voteVars, lateVars>>

\* ToggleButtonGroup isExclusive: pressing the selected button clears the value
SetPostType(c, button) ==
    /\ PostFormShown(c)
    /\ postType' = [postType EXCEPT ![c] = IF @ = button THEN None ELSE button]
    /\ UNCHANGED <<route, formData, location, locationLoading, pc, cslug, cloc, loading,
                   error, postForm, postChannels, selectedChannel, fetches, cpostData,
                   storeVars, slugVars, feedVars, commentVars, authVars, voteVars, lateVars>>

\* The fields the form renders for the selected post type.
FieldShown(c, field) ==
    \/ field = "title"
    \/ field = "content" /\ postType[c] = "text"
    \/ field \in {"linkUrl", "linkTitle", "linkDescription"} /\ postType[c] = "link"

\* handleInputChange(field, value) of CreatePost; fields are disabled while loading
HandlePostInputChange(c, field, v) ==
    /\ PostFormShown(c)
    /\ ~loading[c]
    /\ FieldShown(c, field)
    /\ v # postForm[c][field]
    /\ postForm' = [postForm EXCEPT ![c][field] = v]
    /\ UNCHANGED <<route, formData, location, locationLoading, pc, cslug, cloc, loading,
                   error, postType, postChannels, selectedChannel, fetches, cpostData,
                   storeVars, slugVars, feedVars, commentVars, authVars, voteVars, lateVars>>

\* s.trim() || undefined
TrimOrNone(s) == IF Trim(s) = <<>> THEN None ELSE Trim(s)

\* postData of handleSubmit (with the citySlug and channelSlug it navigates to)
PostData(c) ==
    [locationId |-> location[c],
     citySlug |-> route[c].citySlug,
     channelSlug |-> route[c].channelSlug,
     channelId |-> selectedChannel[c],
     authorId |-> user[c],
     title |-> Trim(postForm[c].title),
     type |-> postType[c],
     content |-> IF postType[c] = "text" THEN Trim(postForm[c].content) ELSE None,
     linkUrl |-> IF postType[c] = "link" THEN Trim(postForm[c].linkUrl) ELSE None,
     linkTitle |-> IF postType[c] = "link" THEN TrimOrNone(postForm[c].linkTitle) ELSE None,
     linkDescription |->
         IF postType[c] = "link" THEN TrimOrNone(postForm[c].linkDescription) ELSE None]

\* The checks of handleSubmit without the two that depend on the post type.
PostInvalidWhateverType(c) ==
    IF Trim(postForm[c].title) = <<>> THEN PostTitleRequired
    ELSE IF selectedChannel[c] = None THEN ChannelRequired
    ELSE IF location[c] = None THEN LocationNotFound
    ELSE NoError

\* The first check of handleSubmit that fails, or NoError.
PostInvalid(c) ==
    IF Trim(postForm[c].title) = <<>> THEN PostTitleRequired
    ELSE IF postType[c] = "text" /\ Trim(postForm[c].content) = <<>> THEN PostContentRequired
    ELSE IF postType[c] = "link" /\ Trim(postForm[c].linkUrl) = <<>> THEN LinkUrlRequired
    ELSE IF selectedChannel[c] = None THEN ChannelRequired
    ELSE IF location[c] = None THEN LocationNotFound
    ELSE NoError

\* CreatePost.handleSubmit up to its await (Post.create is sent)
PostSubmit(c) ==
    /\ PostFormShown(c)
    /\ pc[c] = "idle"
    /\ ~loading[c]
    /\ Len(posts) + InFlight("createPost") < MaxPosts
    /\ IF PostInvalid(c) # NoError
       THEN /\ error' = [error EXCEPT ![c] = PostInvalid(c)]
            /\ UNCHANGED <<pc, loading, cpostData, cuser>>
       ELSE /\ loading' = [loading EXCEPT ![c] = TRUE]
            /\ error' = [error EXCEPT ![c] = NoError]
            /\ cpostData' = [cpostData EXCEPT ![c] = PostData(c)]
            /\ cuser' = [cuser EXCEPT ![c] = user[c]]
            /\ pc' = [pc EXCEPT ![c] = "creating"]
    /\ UNCHANGED <<route, formData, location, locationLoading, cslug, cloc, postForm, postType,
                   postChannels, selectedChannel, fetches, user, posts, props, feedPc, feed,
                   feedLoading, feedError, storeVars, slugVars, commentVars, voteVars, lateVars>>

\* The row Post.create writes for postData.
NewPost(id, pd, now) ==
    [isActive |-> TRUE, locationId |-> pd.locationId, id |-> id, channelId |-> pd.channelId,
     score |-> 0, createdAt |-> now, authorId |-> pd.authorId, title |-> pd.title,
     type |-> pd.type, content |-> pd.content, linkUrl |-> pd.linkUrl, linkTitle |-> pd.linkTitle,
     linkDescription |-> pd.linkDescription, upvotes |-> 0, downvotes |-> 0, commentCount |-> 0]

\* CreatePost.handleSubmit from the answer of Post.create on: the row is written,
\* the client navigates back to the channel or the city
PostCreateResp(c) ==
    /\ route[c].screen = "createPost"
    /\ pc[c] = "creating"
    /\ Authenticated(cuser[c])
    /\ posts' = Append(posts, NewPost(<<Len(posts) + 1>>, cpostData[c], Len(posts) + 1))
    /\ route' = [route EXCEPT ![c] =
           IF cpostData[c].channelSlug # None
           THEN Route("channelView", cpostData[c].citySlug, cpostData[c].channelSlug)
           ELSE Route("cityView", cpostData[c].citySlug, None)]
    /\ ResetPost(c)
    /\ fetches' = [fetches EXCEPT ![c] = {}]
    /\ locationLoading' = [locationLoading EXCEPT ![c] = FALSE]
    /\ cpostData' = [cpostData EXCEPT ![c] = None]
    /\ Finish(c, NoError)
    /\ UNCHANGED <<formData, user, props, feedPc, feed, feedLoading, feedError, storeVars,
                   slugVars, commentVars, voteVars, lateVars>>

\* ... when Post.create answers without data (nothing is reported) or throws
PostCreateFails(c, how) ==
    /\ route[c].screen = "createPost"
    /\ pc[c] = "creating"
    /\ cpostData' = [cpostData EXCEPT ![c] = None]
    /\ Finish(c, IF how = "nodata" THEN NoError ELSE PostCreateFailed)
    /\ UNCHANGED <<route, formData, location, locationLoading, postForm, postType,
                   postChannels, selectedChannel, fetches, user, storeVars, slugVars,
                   feedVars, commentVars, voteVars, lateVars>>

\* handleCancel: back to the channel or the city (the Cancel button is disabled
\* while loading)
PostCancel(c) ==
    /\ PostFormShown(c)
    /\ pc[c] = "idle"
    /\ route' = [route EXCEPT ![c] =
           IF route[c].channelSlug # None
           THEN Route("channelView", route[c].citySlug, route[c].channelSlug)
           ELSE Route("cityView", route[c].citySlug, None)]
    /\ ResetPost(c)
    /\ fetches' = [fetches EXCEPT ![c] = {}]
    /\ locationLoading' = [locationLoading EXCEPT ![c] = FALSE]
    /\ error' = [error EXCEPT ![c] = NoError]
    /\ UNCHANGED <<formData, pc, cslug, cloc, loading, cpostData, storeVars, slugVars,
                   feedVars, commentVars, authVars, voteVars, lateVars>>

---------------------------------------------------------------------------
(* Specifications of posting *)

\* The browser session that writes posts.
Posters == {"c1"}

\* "g"
SeededSlug == <<103>>

SeededChannel(i) ==
    [slug |-> SeededSlug, isActive |-> TRUE, locationId |-> <<i>>, id |-> <<i>>,
     createdBy |-> <<1>>, memberCount |-> 0, postCount |-> 0]

\* A store that holds the cities "a" and "b", each with a channel "g" just
\* created, and no post.
InitPosting ==
    /\ locations = << [slug |-> <<97>>, isActive |-> TRUE, id |-> <<1>>, owner |-> <<1>>],
                      [slug |-> <<98>>, isActive |-> TRUE, id |-> <<2>>, owner |-> <<1>>] >>
    /\ channels = << SeededChannel(1), SeededChannel(2) >>
    /\ InitForms
    /\ InitPost
    /\ IdleSlug /\ IdleFeed /\ IdleComments /\ IdleVotes /\ IdleLate

MaxWritten == 1

\* One session filling in and submitting the form of /city/a/create-post; every
\* store call answers with data.
NextPostShape ==
    \E c \in Posters :
        \/ OpenCreatePost(c, <<97>>, None)
        \/ \E f \in fetches[c] : PostLocationResp(c, f)
        \/ \E f \in fetches[c] : PostChannelsResp(c, f)
        \/ \E v \in ChannelOptions(c) : SelectChannel(c, v)
        \/ \E b \in {"text", "link"} : SetPostType(c, b)
        \/ \E field \in PostFields, v \in PostTexts : HandlePostInputChange(c, field, v)
        \/ Len(posts) < MaxWritten /\ PostSubmit(c)
        \/ PostCreateResp(c)
        \/ PostCancel(c)

SpecPostShape == InitPosting /\ [][NextPostShape]_vars

\* One session on the create-post routes of both cities, with and without a
\* channel in the route, moving between them while its requests are in flight;
\* every store call answers with data.
NextPostRoute ==
    \E c \in Posters :
        \/ \E city \in {<<97>>, <<98>>}, chan \in {None, SeededSlug} :
               OpenCreatePost(c, city, chan)
        \/ \E f \in fetches[c] : PostLocationResp(c, f)
        \/ \E f \in fetches[c] : PostChannelsResp(c, f)
        \/ \E v \in ChannelOptions(c) : SelectChannel(c, v)
        \/ \E field \in {"title", "content"} : HandlePostInputChange(c, field, <<32, 120>>)
        \/ Len(posts) < MaxWritten /\ PostSubmit(c)
        \/ PostCreateResp(c)
        \/ PostCancel(c)

SpecPostRoute == InitPosting /\ [][NextPostRoute]_vars

---------------------------------------------------------------------------
(* Claims about CreatePost *)

NonBlank(t) == t # None /\ Trim(t) # <<>>

\* The form holds what its post type requires.
FormShapeOk(c) ==
    /\ Trim(postForm[c].title) # <<>>
    /\ postType[c] = "text" => Trim(postForm[c].content) # <<>>
    /\ postType[c] = "link" => Trim(postForm[c].linkUrl) # <<>>

\* A step of handleSubmit from the idle form: it reports an error or sends
\* Post.create, and touches nothing else of the form.
PostSubmitStep(c) ==
    /\ pc[c] = "idle"
    /\ error'[c] # error[c] \/ pc'[c] # pc[c]
    /\ route'[c] = route[c]
    /\ fetches'[c] = fetches[c]
    /\ postForm'[c] = postForm[c]

\* C18: every Post written by CreatePost.handleSubmit has a non-blank title; a
\* text Post has non-blank content and no linkUrl, linkTitle or linkDescription; a
\* link Post has a non-blank linkUrl and no content; and a submit whose form does
\* not hold what its type requires is rejected before any store call.
PostFieldsMatchType ==
    /\ [](\A i \in 1..Len(posts) :
              /\ NonBlank(posts[i].title)
              /\ posts[i].type = "text" =>
                     /\ NonBlank(posts[i].content)
                     /\ posts[i].linkUrl = None
                     /\ posts[i].linkTitle = None
                     /\ posts[i].linkDescription = None
              /\ posts[i].type = "link" =>
                     /\ NonBlank(posts[i].linkUrl)
                     /\ posts[i].content = None)
    /\ [][\A c \in Clients :
              ( /\ route[c].screen = "createPost"
                /\ PostSubmitStep(c)
                /\ ~FormShapeOk(c) )
              => /\ pc'[c] = "idle"
                 /\ error'[c] \in {PostTitleRequired, PostContentRequired, LinkUrlRequired}
                 /\ posts' = posts]_vars

\* C18 (witness): Post.create has been sent for a link post whose form still holds
\* the content typed while the type was text; the content is not part of postData.
LinkPostSentWithoutTypedContent ==
    \E c \in Clients :
        /\ pc[c] = "creating"
        /\ cpostData[c].type = "link"
        /\ postForm[c].content # <<>>
        /\ cpostData[c].content = None
        /\ cpostData[c].linkTitle = None

\* C19: every Post created by CreatePost has a channelId whose Channel belongs to
\* the Post's locationId.
PostChannelBelongsToLocation ==
    \A i \in 1..Len(posts) :
        \E j \in 1..Len(channels) :
            /\ channels[j].id = posts[i].channelId
            /\ channels[j].locationId = posts[i].locationId

---------------------------------------------------------------------------
(* PostList: writing a comment *)

\* newComments[postId] || ""
Draft == IF ThePost \in DOMAIN newComments THEN newComments[ThePost] ELSE <<>>

\* " ", " x" (the draft starts as "")
CommentTexts == {<<32>>, <<32, 120>>}

\* The comment box is rendered in an expanded post, {user && ...}.
CommentBoxShown == comPc # "off" /\ expanded /\ viewer # None

\* onChange of the comment box
SetNewComment(v) ==
    /\ CommentBoxShown
    /\ v # Draft
    /\ newComments' = (ThePost :> v)
    /\ UNCHANGED <<comments, expanded, commentsOf, comFetches, comPc, viewer, ccomment,
                   slugVars, storeVars, formVars, feedVars, authVars, postVars, voteVars, lateVars>>

\* A guard that looks at the text alone.
CommentRefusedWhenBlank == Trim(Draft) = <<>>

\* if (!user || !newComments[postId]?.trim()) return;
CommentRefused == viewer = None \/ Trim(Draft) = <<>>

\* handleCommentSubmit(postId) up to await Comment.create; it may be called in any
\* state of the component
HandleCommentSubmit ==
    /\ comPc = "idle"
    /\ Len(comments) < MaxComments
    /\ IF CommentRefused
       THEN UNCHANGED <<comPc, ccomment>>
       ELSE /\ comPc' = "creating"
            /\ ccomment' = [postId |-> ThePost, authorId |-> viewer, content |-> Trim(Draft)]
    /\ UNCHANGED <<comments, expanded, commentsOf, comFetches, newComments, viewer,
                   slugVars, storeVars, formVars, feedVars, authVars, postVars, voteVars, lateVars>>

\* A row whose score default is not the difference of the other two defaults.
NewCommentScoredOne(id, cc, now) ==
    [isActive |-> TRUE, id |-> id, score |-> 1, createdAt |-> now, postId |-> cc.postId,
     parentCommentId |-> None, authorId |-> cc.authorId, content |-> cc.content, upvotes |-> 0,
     downvotes |-> 0]

\* The Comment row the store writes for the input of handleCommentSubmit: the
\* fields it does not send take the schema's defaults.
NewComment(id, cc, now) ==
    [isActive |-> TRUE, id |-> id, score |-> 0, createdAt |-> now, postId |-> cc.postId,
     parentCommentId |-> None, authorId |-> cc.authorId, content |-> cc.content, upvotes |-> 0,
     downvotes |-> 0]

\* handleCommentSubmit from the answer of Comment.create on: the row is written,
\* the draft is cleared and fetchComments starts
CommentCreateResp ==
    /\ comPc = "creating"
    /\ Authenticated(ccomment.authorId)
    /\ comFetches < MaxFetches
    /\ comments' = Append(comments,
           NewComment(<<Len(comments) + 1>>, ccomment, Len(comments) + 1))
    /\ newComments' = (ThePost :> <<>>)
    /\ comFetches' = comFetches + 1
    /\ comPc' = "idle"
    /\ ccomment' = None
    /\ UNCHANGED <<expanded, commentsOf, viewer,
                   slugVars, storeVars, formVars, feedVars, authVars, postVars, voteVars, lateVars>>

\* ... when Comment.create answers without data (the handler goes on as if it had
\* been written) or throws (nothing but a console message)
CommentCreateFails(how) ==
    /\ comPc = "creating"
    /\ IF how = "nodata"
       THEN /\ comFetches < MaxFetches
            /\ newComments' = (ThePost :> <<>>)
            /\ comFetches' = comFetches + 1
       ELSE UNCHANGED <<newComments, comFetches>>
    /\ comPc' = "idle"
    /\ ccomment' = None
    /\ UNCHANGED <<comments, expanded, commentsOf, viewer,
                   slugVars, storeVars, formVars, feedVars, authVars, postVars, voteVars, lateVars>>

---------------------------------------------------------------------------
(* Specifications of writing: channels, posts and comments together *)

\* The browser session that creates channels.
Founders == {"c2"}

\* The city "a" with its channel "g", no post and no comment; every session is
\* signed in.
InitWrites ==
    /\ locations = << [slug |-> <<97>>, isActive |-> TRUE, id |-> <<1>>, owner |-> <<1>>] >>
    /\ channels = << SeededChannel(1) >>
    /\ InitForms
    /\ InitPost
    /\ IdleSlug /\ IdleFeed /\ IdleVotes /\ IdleLate
    /\ comments = <<>>
    /\ expanded = FALSE
    /\ commentsOf = <<>>
    /\ comFetches = 0
    /\ newComments = <<>>
    /\ comPc = "idle"
    /\ viewer \in UserIds
    /\ ccomment = None

\* The feed shows the post whose comments section is toggled.
PostWritten(id) == \E i \in 1..Len(posts) : posts[i].id = id

\* CreatePost on /city/a/channel/g/create-post, answered with data.
WritingPost(c) ==
    \/ OpenCreatePost(c, <<97>>, SeededSlug)
    \/ \E f \in fetches[c] : PostLocationResp(c, f)
    \/ \E f \in fetches[c] : PostChannelsResp(c, f)
    \/ \E field \in {"title", "content"} : HandlePostInputChange(c, field, <<32, 120>>)
    \/ Len(posts) < MaxWritten /\ PostSubmit(c)
    \/ PostCreateResp(c)

\* CreateChannel on /city/a/create-channel with the name "b", answered with data.
WritingChannel(c) ==
    \/ OpenCreateChannel(c, <<97>>)
    \/ FetchLocationResp(c)
    \/ HandleInputChange(c, <<98>>)
    \/ ChannelSubmit(c)
    \/ ChannelListResp(c)
    \/ ChannelCreateResp(c)

\* The comments section of the first post, answered with data.
WritingComment ==
    \/ PostWritten(ThePost) /\ ToggleComments
    \/ FetchCommentsResp
    \/ SetNewComment(<<32, 120>>)
    \/ PostWritten(ThePost) /\ Len(comments) < MaxWritten /\ HandleCommentSubmit
    \/ CommentCreateResp

NextWrites ==
    \/ \E c \in Posters : WritingPost(c)
    \/ \E c \in Founders : WritingChannel(c)
    \/ WritingComment

SpecWrites == InitWrites /\ [][NextWrites]_vars

---------------------------------------------------------------------------
(* Claims about the stored counters *)

\* C14: in every reachable store state, every Post and every Comment the
\* application created has score = upvotes - downvotes.
ScoreIsUpvotesLessDownvotes ==
    /\ \A i \in 1..Len(posts) : posts[i].score = posts[i].upvotes - posts[i].downvotes
    /\ \A i \in 1..Len(comments) :
           comments[i].score = comments[i].upvotes - comments[i].downvotes

\* C14 (witness): a post and a comment on it have been created.
PostAndCommentCreated == Len(posts) > 0 /\ Len(comments) > 0

PostsOfChannel(id) == {j \in 1..Len(posts) : posts[j].channelId = id}

CommentsOfPost(id) == {j \in 1..Len(comments) : comments[j].postId = id}

\* C17: in every reachable store state, each Channel's postCount is the number of
\* Posts with its id as channelId and each Post's commentCount is the number of
\* Comments with its id as postId.
CountersEqualLiveCounts ==
    /\ \A i \in 1..Len(channels) :
           channels[i].postCount = Cardinality(PostsOfChannel(channels[i].id))
    /\ \A i \in 1..Len(posts) :
           posts[i].commentCount = Cardinality(CommentsOfPost(posts[i].id))

---------------------------------------------------------------------------
(* Signing in and out *)

\* The Authenticator that withAuthenticator shows in place of a create screen
\* signs the user in; the wrapped component then mounts with its initial state
\* and its effect starts the fetch of the route.
SignIn(c, u) ==
    /\ user[c] = None
    /\ pc[c] = "idle"
    /\ user' = [user EXCEPT ![c] = u]
    /\ formData' = [formData EXCEPT ![c] = <<>>]
    /\ ResetPost(c)
    /\ loading' = [loading EXCEPT ![c] = FALSE]
    /\ error' = [error EXCEPT ![c] = NoError]
    /\ locationLoading' = [locationLoading EXCEPT ![c] =
           route[c].screen \in {"createChannel", "createPost"}]
    /\ fetches' = [fetches EXCEPT ![c] =
           IF route[c].screen = "createPost"
           THEN {Fetch(route[c].citySlug, route[c].channelSlug, "location", None)}
           ELSE {}]
    /\ UNCHANGED <<route, pc, cslug, cloc, cuser, cpostData, storeVars, slugVars, feedVars,
                   commentVars, voteVars, lateVars>>

\* The session ends (sign-out elsewhere, expired tokens): useAuthenticator gives
\* no user, and withAuthenticator shows the Authenticator again.  Calls already
\* sent stay in flight.
SessionEnds(c) ==
    /\ user[c] # None
    /\ user' = [user EXCEPT ![c] = None]
    /\ UNCHANGED <<cuser, storeVars, slugVars, formVars, feedVars, moreVars>>

\* The same two events in the session that shows the PostList.
ViewerSignsIn(u) ==
    /\ comPc # "off"
    /\ viewer = None
    /\ viewer' = u
    /\ UNCHANGED <<comments, expanded, commentsOf, comFetches, newComments, comPc, ccomment,
                   slugVars, storeVars, formVars, feedVars, authVars, postVars, voteVars, lateVars>>

ViewerSessionEnds ==
    /\ comPc # "off"
    /\ viewer # None
    /\ viewer' = None
    /\ UNCHANGED <<comments, expanded, commentsOf, comFetches, newComments, comPc, ccomment,
                   slugVars, storeVars, formVars, feedVars, authVars, postVars, voteVars, lateVars>>

\* The city "a" with its channel "g"; nobody is signed in.
InitGuests ==
    /\ locations = << [slug |-> <<97>>, isActive |-> TRUE, id |-> <<1>>, owner |-> <<1>>] >>
    /\ channels = << SeededChannel(1) >>
    /\ route = [c \in Clients |-> Route("landing", None, None)]
    /\ formData = [c \in Clients |-> <<>>]
    /\ location = [c \in Clients |-> None]
    /\ locationLoading = [c \in Clients |-> FALSE]
    /\ pc = [c \in Clients |-> "idle"]
    /\ cslug = [c \in Clients |-> None]
    /\ cloc = [c \in Clients |-> None]
    /\ loading = [c \in Clients |-> FALSE]
    /\ error = [c \in Clients |-> NoError]
    /\ user = [c \in Clients |-> None]
    /\ cuser = [c \in Clients |-> None]
    /\ InitPost
    /\ IdleSlug /\ IdleFeed /\ IdleVotes /\ IdleLate
    /\ comments = <<>>
    /\ expanded = FALSE
    /\ commentsOf = <<>>
    /\ comFetches = 0
    /\ newComments = <<>>
    /\ comPc = "idle"
    /\ viewer = None
    /\ ccomment = None

\* CreateCity with the name "b" in the state "MI"; the store refuses a create
\* call sent without a session.
WritingCity(c) ==
    \/ OpenCreateCity(c)
    \/ HandleInputChange(c, <<98>>)
    \/ CitySubmit(c, <<77, 73>>)
    \/ CityListResp(c)
    \/ CityCreateResp(c)
    \/ ~Authenticated(cuser[c]) /\ CityCreateFails(c, "throw")

NextAuth ==
    \/ \E c \in Posters, u \in UserIds : SignIn(c, u)
    \/ \E c \in Posters : SessionEnds(c)
    \/ \E u \in UserIds : ViewerSignsIn(u)
    \/ ViewerSessionEnds
    \/ \E c \in Posters : WritingCity(c)
    \/ \E c \in Posters : WritingChannel(c)
    \/ \E c \in Posters : ~Authenticated(cuser[c]) /\ ChannelCreateFails(c, "throw")
    \/ \E c \in Posters : WritingPost(c)
    \/ PostWritten(ThePost) /\ ~expanded /\ ToggleComments
    \/ FetchCommentsResp
    \/ \E v \in CommentTexts : SetNewComment(v)
    \/ PostWritten(ThePost) /\ Len(comments) < MaxWritten /\ HandleCommentSubmit
    \/ CommentCreateResp

SpecAuth == InitGuests /\ [][NextAuth]_vars

---------------------------------------------------------------------------
(* Claims about authentication *)

\* The identities the rows of the four tables were written for.
Writers ==
    {locations[i].owner : i \in 1..Len(locations)}
        \cup {channels[i].createdBy : i \in 1..Len(channels)}
        \cup {posts[i].authorId : i \in 1..Len(posts)}
        \cup {comments[i].authorId : i \in 1..Len(comments)}

\* A handleSubmit of a create screen gets past its validations.
SubmitStarts(c) == pc[c] = "idle" /\ pc'[c] # "idle"

\* handleCommentSubmit sends Comment.create.
CommentSent == comPc = "idle" /\ comPc' = "creating"

\* C20: no Location, Channel, Post or Comment is written for anyone but a signed-in
\* user: every row carries the identity of a signed-in user, a create screen
\* starts a submit only in a signed-in session, and handleCommentSubmit sends
\* Comment.create only with a user present and a non-blank text.
NothingCreatedSignedOut ==
    /\ [](Writers \subseteq UserIds)
    /\ [][\A c \in Clients : SubmitStarts(c) => SignedIn(c)]_vars
    /\ [][CommentSent => viewer # None /\ Trim(Draft) # <<>>]_vars

\* C20 (witness): a comment has been written, and the comment handler is now
\* called with a text typed in and the session ended.
CommentHandlerCalledSignedOut ==
    /\ Len(comments) > 0
    /\ Len(locations) > 1
    /\ viewer = None
    /\ Trim(Draft) # <<>>
    /\ comPc = "idle"

---------------------------------------------------------------------------
(* Score Aggregator: castVote(userId, target, type) *)

MaxCalls == 2

Voters == {<<1>>, <<2>>}

VoteTypes == {"upvote", "downvote"}

\* A target is a Post or a Comment: post 1 and comment 1 are active, post 2 is not.
Targets ==
    {[id |-> <<1>>, kind |-> "post"], [id |-> <<2>>, kind |-> "post"],
     [id |-> <<1>>, kind |-> "comment"]}

TargetRow(id, active) ==
    [isActive |-> active, id |-> id, score |-> 0, postId |-> <<1>>, upvotes |-> 0,
     downvotes |-> 0]

InitVotes ==
    /\ posts = << TargetRow(<<1>>, TRUE), TargetRow(<<2>>, FALSE) >>
    /\ comments = << TargetRow(<<1>>, TRUE) >>
    /\ votes = <<>>
    /\ calls = {}
    /\ reply = [outcome |-> "none"]
    /\ props = <<>>
    /\ feedPc = "off"
    /\ feed = <<>>
    /\ feedLoading = FALSE
    /\ feedError = NoError
    /\ expanded = FALSE
    /\ commentsOf = <<>>
    /\ comFetches = 0
    /\ newComments = <<>>
    /\ comPc = "off"
    /\ viewer = None
    /\ ccomment = None
    /\ IdleSlug /\ IdleStore /\ IdleForms /\ IdleAuth /\ IdlePost /\ IdleLate

\* The table a target lives in.
TableOf(t) == IF t.kind = "post" THEN posts ELSE comments

\* The rows of the target: one, or none when it does not exist or is inactive.
FoundTarget(t) ==
    {i \in 1..Len(TableOf(t)) : TableOf(t)[i].id = t.id /\ TableOf(t)[i].isActive}

\* The target a Vote row points at.
TargetOf(v) ==
    IF v.postId # None THEN [id |-> v.postId, kind |-> "post"]
    ELSE [id |-> v.commentId, kind |-> "comment"]

\* A lookup by user alone.
PriorVoteOfUser(u, t) == {i \in 1..Len(votes) : votes[i].userId = u}

\* The Vote rows of this user for this target.
PriorVote(u, t) == {i \in 1..Len(votes) : votes[i].userId = u /\ TargetOf(votes[i]) = t}

\* The Vote row inserted for a first vote: exactly one of postId / commentId.
VoteRow(id, u, t, ty, now) ==
    [id |-> id, createdAt |-> now, postId |-> IF t.kind = "post" THEN t.id ELSE None, type |-> ty,
     commentId |-> IF t.kind = "comment" THEN t.id ELSE None, userId |-> u]

\* The counters of a row with the counter of a vote type moved by d, score recomputed.
Counted(r, ty, d) ==
    LET up == r.upvotes + (IF ty = "upvote" THEN d ELSE 0)
        down == r.downvotes + (IF ty = "downvote" THEN d ELSE 0)
    IN  [r EXCEPT !.upvotes = up, !.downvotes = down, !.score = up - down]

Other(ty) == IF ty = "upvote" THEN "downvote" ELSE "upvote"

\* A flip that takes the old vote back and does not count the new one.
FlippedOneSide(r, ty) == Counted(r, Other(ty), -1)

\* A flip to type ty: the old counter decremented, the new one incremented.
Flipped(r, ty) == Counted(Counted(r, Other(ty), -1), ty, 1)

\* A request-handling unit takes a castVote call; the store has not seen it yet.
CastVote(u, t, ty) ==
    /\ Cardinality(calls) < MaxCalls
    /\ [type |-> ty, userId |-> u, target |-> t] \notin calls
    /\ calls' = calls \cup {[type |-> ty, userId |-> u, target |-> t]}
    /\ UNCHANGED <<votes, reply, posts, comments, props, feedPc, feed, feedLoading,
                   feedError, expanded, commentsOf, comFetches, newComments, comPc, viewer,
                   ccomment, slugVars, storeVars, formVars, authVars, postVars, lateVars>>

\* The target's table with row i replaced.
WithRow(t, i, r) == [TableOf(t) EXCEPT ![i] = r]

\* The store applies one call as a single transaction on the Vote row and the
\* target's counters, reading both as they are now.
ApplyVote(call) ==
    /\ call \in calls
    /\ calls' = calls \ {call}
    /\ LET t == call.target
           hit == FoundTarget(t)
           prior == PriorVote(call.userId, t)
       IN  IF hit = {}
           THEN /\ reply' = [outcome |-> "TargetNotFound", target |-> t]
                /\ UNCHANGED <<votes, posts, comments>>
           ELSE LET i == CHOOSE k \in hit : TRUE
                    r == TableOf(t)[i]
                IN  IF prior = {}
                    THEN /\ votes' = Append(votes,
                                VoteRow(<<Len(votes) + 1>>, call.userId, t, call.type,
                                        Len(votes) + 1))
                         /\ reply' = [outcome |-> "inserted", target |-> t]
                         /\ IF t.kind = "post"
                            THEN posts' = WithRow(t, i, Counted(r, call.type, 1))
                                 /\ UNCHANGED comments
                            ELSE comments' = WithRow(t, i, Counted(r, call.type, 1))
                                 /\ UNCHANGED posts
                    ELSE LET k == CHOOSE j \in prior : TRUE
                         IN  IF votes[k].type # call.type
                             THEN /\ votes' = [votes EXCEPT ![k].type = call.type]
                                  /\ reply' = [outcome |-> "flipped", target |-> t]
                                  /\ IF t.kind = "post"
                                     THEN posts' = WithRow(t, i, Flipped(r, call.type))
                                          /\ UNCHANGED comments
                                     ELSE comments' = WithRow(t, i, Flipped(r, call.type))
                                          /\ UNCHANGED posts
                             ELSE /\ reply' = [outcome |-> "unchanged", target |-> t]
                                  /\ UNCHANGED <<votes, posts, comments>>
    /\ UNCHANGED <<props, feedPc, feed, feedLoading, feedError, expanded, commentsOf,
                   comFetches, newComments, comPc, viewer, ccomment, slugVars, storeVars,
                   formVars, authVars, postVars, lateVars>>

\* The calls made: user 1 votes on post 1 and on comment 1, user 2 on post 1, and
\* user 1 also on the inactive post 2.
Ballots ==
    {b \in [userId : Voters, target : Targets, type : VoteTypes] :
        \/ b.userId = <<1>> /\ b.target.id = <<1>>
        \/ b.userId = <<2>> /\ b.target = [id |-> <<1>>, kind |-> "post"]
        \/ b.userId = <<1>> /\ b.type = "upvote"}

NextVotes ==
    \/ \E b \in Ballots : CastVote(b.userId, b.target, b.type)
    \/ \E call \in calls : ApplyVote(call)

\* Any number of users voting on the same posts and comments at the same time.
SpecVotes == InitVotes /\ [][NextVotes]_vars

---------------------------------------------------------------------------
(* Claims about votes *)

\* The Vote rows of one type recorded for a target.
Recorded(t, ty) == {i \in 1..Len(votes) : TargetOf(votes[i]) = t /\ votes[i].type = ty}

\* The stored row of a target that exists.
StoredTarget(t) == TableOf(t)[CHOOSE i \in 1..Len(TableOf(t)) : TableOf(t)[i].id = t.id]

\* C15: after any sequence of votes there is at most one Vote row per (userId,
\* target), each Vote has exactly one of postId / commentId set, and each target's
\* score is the number of recorded upvotes minus the number of recorded downvotes.
OneVotePerUserAndTarget ==
    /\ \A i, j \in 1..Len(votes) :
           votes[i].userId = votes[j].userId /\ votes[i].postId = votes[j].postId
               /\ votes[i].commentId = votes[j].commentId => i = j
    /\ \A i \in 1..Len(votes) : (votes[i].postId = None) # (votes[i].commentId = None)
    /\ \A t \in Targets :
           StoredTarget(t).score
               = Cardinality(Recorded(t, "upvote")) - Cardinality(Recorded(t, "downvote"))

\* C15 (witness): user 1 has voted on the post and on the comment, once up and once
\* down, and user 2 has voted on the post too.
SameUserVotedOnPostAndComment ==
    /\ Len(votes) = 3
    /\ \E i, j \in 1..Len(votes) :
           /\ votes[i].userId = <<1>> /\ votes[j].userId = <<1>>
           /\ votes[i].postId # None /\ votes[j].commentId # None
           /\ votes[i].type # votes[j].type

\* Both counters and the score of every target agree with the recorded votes.
CountersMatchVotes ==
    \A t \in Targets :
        /\ StoredTarget(t).upvotes = Cardinality(Recorded(t, "upvote"))
        /\ StoredTarget(t).downvotes = Cardinality(Recorded(t, "downvote"))
        /\ StoredTarget(t).score = StoredTarget(t).upvotes - StoredTarget(t).downvotes

\* A step in which Vote row i changes its type.
FlipStep(i) == i \in 1..Len(votes) /\ votes'[i].type # votes[i].type

\* C16: a change of a user's vote to the other type updates the Vote row in place
\* and moves both counters in the same step, so that, with other votes on the same
\* target in flight, no state shows a score with one side of the flip only.
FlipIsOneStep ==
    /\ [][\A i \in 1..Len(votes) : FlipStep(i) =>
              /\ Len(votes') = Len(votes)
              /\ votes' = [votes EXCEPT ![i].type = votes'[i].type]
              /\ calls' # calls]_vars
    /\ []CountersMatchVotes

\* C16 (witness): a vote on the post has just been flipped while another call on
\* the post waits to be applied.
FlippedWhileAnotherVoteInFlight ==
    /\ reply.outcome = "flipped"
    /\ reply.target = [id |-> <<1>>, kind |-> "post"]
    /\ \E call \in calls : call.target = reply.target
    /\ Cardinality(Recorded(reply.target, "upvote")) = 1
    /\ Cardinality(Recorded(reply.target, "downvote")) = 1

---------------------------------------------------------------------------
(* generateSlug applied twice, and its two copies *)

\* The copy of generateSlug in CreateChannel.
generateSlugChannel(n) ==
    Trim(CollapseHyphens(WhitespaceToHyphen(StripInvalid(ToLowerCase(n)))))

\* C29: generateSlug is idempotent, generateSlug(generateSlug(name)) =
\* generateSlug(name), and the CreateChannel copy returns the slug the CreateCity
\* copy returns.
SlugOfSlugIsSlug ==
    slugPc = "done" =>
        /\ generateSlug(slug) = slug
        /\ generateSlugChannel(name) = slug
        /\ generateSlugChannel(slug) = slug

\* C29 (witness): a slug has been computed from a name it differs from, with a
\* hyphen made from white space and a character stripped.
SlugDiffersFromName ==
    /\ slugPc = "done"
    /\ slug # name
    /\ \E i \in 1..Len(slug) : slug[i] = 45
    /\ \E i \in 1..Len(name) : name[i] = 32
    /\ \E i \in 1..Len(name) : name[i] = 33
    /\ Len(slug) >= 3

---------------------------------------------------------------------------
(* formatDate (helpers/formatDate.ts)                                      *)
(*                                                                         *)
(* The age is given as whole seconds and the milliseconds left over, since *)
(* 28 days in milliseconds does not fit a 32-bit integer: diffInMs =       *)
(* 1000 * sec + ms with 0 <= ms <= 999, so diffInMs < 0 exactly when       *)
(* sec < 0.  Every threshold of formatDate is a whole number of seconds.   *)

\* The largest multiple of a unit among the ages tried.
MaxUnits == 4

\* Ages around every multiple of a minute, an hour, a day and a week.
Ages ==
    { [sec |-> k * u + e, ms |-> m] :
        k \in 0..MaxUnits, u \in {60, 3600, 86400, 604800}, e \in {-1, 0, 1},
        m \in {0, 999} }

\* date.toLocaleDateString()
AbsoluteDate == [n |-> 0, kind |-> "date", unit |-> ""]

JustNow == [n |-> 0, kind |-> "Just now", unit |-> ""]

\* `${n}${unit} ago`
Ago(n, unit) == [n |-> n, kind |-> "ago", unit |-> unit]

\* formatDate with the hour bucket starting after 60 minutes instead of at them.
formatDateHourAfterSixty(d) ==
    IF d.sec < 0 THEN AbsoluteDate
    ELSE IF d.sec < 60 THEN JustNow
    ELSE IF d.sec <= 60 * 60 THEN Ago(d.sec \div 60, "m")
    ELSE IF d.sec < 24 * 3600 THEN Ago(d.sec \div 3600, "h")
    ELSE IF d.sec < 7 * 86400 THEN Ago(d.sec \div 86400, "d")
    ELSE IF d.sec < 4 * 604800 THEN Ago(d.sec \div 604800, "w")
    ELSE AbsoluteDate

\* formatDate(dateString), as a function of the age d = now - date:
\* diffInMinutes = diffInMs / 60000 and so on, each bucket tested in turn.
formatDate(d) ==
    IF d.sec < 0 THEN AbsoluteDate
    ELSE IF d.sec < 60 THEN JustNow
    ELSE IF d.sec < 60 * 60 THEN Ago(d.sec \div 60, "m")
    ELSE IF d.sec < 24 * 3600 THEN Ago(d.sec \div 3600, "h")
    ELSE IF d.sec < 7 * 86400 THEN Ago(d.sec \div 86400, "d")
    ELSE IF d.sec < 4 * 604800 THEN Ago(d.sec \div 604800, "w")
    ELSE AbsoluteDate

InitDates ==
    /\ diff \in Ages
    /\ formatted = <<>>
    /\ datePc = "input"
    /\ IdleSlug /\ IdleStore /\ IdleForms /\ IdleAuth /\ IdleFeed
    /\ IdleComments /\ IdlePost /\ IdleVotes /\ IdleGate /\ IdleBrowse /\ IdleCounts

RunFormatDate ==
    /\ datePc = "input"
    /\ formatted' = formatDate(diff)
    /\ datePc' = "done"
    /\ UNCHANGED <<diff, gate, seen, feedCalls, commentCounts, slugVars, storeVars, formVars, feedVars, commentVars,
                   postVars, voteVars, authVars>>

NextDates == RunFormatDate

SpecDates == InitDates /\ [][NextDates]_vars

\* The number of whole units of u seconds in the age d.
WholeUnits(d, u) == CHOOSE n \in 0..59 : n * u <= d.sec /\ d.sec < (n + 1) * u

\* C30: formatDate puts the age d in exactly one bucket: the absolute date for
\* d < 0 and from 28 days on, "Just now" below one minute, and otherwise the
\* whole number N of minutes (1..59), hours (1..23), days (1..6) or weeks (1..3)
\* of the largest unit the age has reached, so that 60 minutes read "1h ago",
\* 24 hours "1d ago", 7 days "1w ago" and 4 weeks the absolute date.
AgeFallsInOneBucket ==
    datePc = "done" =>
        /\ diff.sec < 0 => formatted = AbsoluteDate
        /\ 0 <= diff.sec /\ diff.sec < 60 => formatted = JustNow
        /\ 60 <= diff.sec /\ diff.sec < 3600 =>
               /\ formatted = Ago(WholeUnits(diff, 60), "m")
               /\ formatted.n \in 1..59
        /\ 3600 <= diff.sec /\ diff.sec < 86400 =>
               /\ formatted = Ago(WholeUnits(diff, 3600), "h")
               /\ formatted.n \in 1..23
        /\ 86400 <= diff.sec /\ diff.sec < 604800 =>
               /\ formatted = Ago(WholeUnits(diff, 86400), "d")
               /\ formatted.n \in 1..6
        /\ 604800 <= diff.sec /\ diff.sec < 2419200 =>
               /\ formatted = Ago(WholeUnits(diff, 604800), "w")
               /\ formatted.n \in 1..3
        /\ 2419200 <= diff.sec => formatted = AbsoluteDate

\* An age of exactly 60 minutes has been formatted, as "1h ago".
SixtyMinutesFormatted ==
    datePc = "done" /\ diff = [sec |-> 3600, ms |-> 0] /\ formatted = Ago(1, "h")

---------------------------------------------------------------------------
(* The authorization rules of the schema (amplify/data/resource.ts)        *)

Operations == {"create", "read", "update", "delete"}

Models == {"UserProfile", "Location", "Channel", "ChannelMembership", "Post", "Comment",
           "Vote"}

\* The two registered users a request can come from or a row can name.
Accounts == {<<1>>, <<2>>}

\* Who sends a request: the holder of the public API key, an unauthenticated
\* (guest) identity, or a signed-in user, who may be in the group "admins".
Callers ==
    {[userId |-> None, mode |-> "apiKey", admin |-> FALSE],
     [userId |-> None, mode |-> "guest", admin |-> FALSE]}
    \cup {[userId |-> u, mode |-> "userPool", admin |-> a] : u \in Accounts, a \in BOOLEAN}

\* allow.<strategy>().to(ops); without .to() a rule covers every operation.
Rule(strategy, ops) == [strategy |-> strategy, ops |-> ops]

\* The rules of the schema with Vote's create, update and delete open to every
\* signed-in user.
RulesVoteWritableByAll(m) ==
    CASE m = "UserProfile" -> {Rule("owner", Operations), Rule("publicApiKey", {"read"})}
      [] m = "Location" -> {Rule("publicApiKey", {"read"}),
                            Rule("admins", {"create", "update", "delete"}),
                            Rule("owner", Operations)}
      [] m = "Channel" -> {Rule("publicApiKey", {"read"}),
                           Rule("authenticated", {"create"}),
                           Rule("owner", {"update", "delete"})}
      [] m = "ChannelMembership" -> {Rule("owner", Operations),
                                     Rule("authenticated", {"read"}),
                                     Rule("publicApiKey", {"read"})}
      [] m = "Post" -> {Rule("publicApiKey", {"read"}),
                        Rule("authenticated", {"create"}),
                        Rule("owner", {"update", "delete"})}
      [] m = "Comment" -> {Rule("publicApiKey", {"read"}),
                           Rule("authenticated", {"create"}),
                           Rule("owner", {"update", "delete"})}
      [] m = "Vote" -> {Rule("authenticated", Operations),
                        Rule("guest", {"read"})}

\* .authorization((allow) => [...]) of each model.  "owner" stands for allow.owner()
\* and for allow.ownerDefinedIn(field): the row's owner field names the caller.
Rules(m) ==
    CASE m = "UserProfile" -> {Rule("owner", Operations), Rule("publicApiKey", {"read"})}
      [] m = "Location" -> {Rule("publicApiKey", {"read"}),
                            Rule("admins", {"create", "update", "delete"}),
                            Rule("owner", Operations)}
      [] m = "Channel" -> {Rule("publicApiKey", {"read"}),
                           Rule("authenticated", {"create"}),
                           Rule("owner", {"update", "delete"})}
      [] m = "ChannelMembership" -> {Rule("owner", Operations),
                                     Rule("authenticated", {"read"}),
                                     Rule("publicApiKey", {"read"})}
      [] m = "Post" -> {Rule("publicApiKey", {"read"}),
                        Rule("authenticated", {"create"}),
                        Rule("owner", {"update", "delete"})}
      [] m = "Comment" -> {Rule("publicApiKey", {"read"}),
                           Rule("authenticated", {"create"}),
                           Rule("owner", {"update", "delete"})}
      [] m = "Vote" -> {Rule("owner", Operations),
                        Rule("authenticated", {"read"}),
                        Rule("guest", {"read"})}

\* Rule r lets the caller do op on a row whose owner field holds owner.
Grants(r, caller, op, owner) ==
    /\ op \in r.ops
    /\ CASE r.strategy = "publicApiKey" -> caller.mode = "apiKey"
         [] r.strategy = "guest" -> caller.mode = "guest"
         [] r.strategy = "authenticated" -> caller.mode = "userPool"
         [] r.strategy = "admins" -> caller.mode = "userPool" /\ caller.admin
         [] r.strategy = "owner" -> caller.mode = "userPool" /\ caller.userId = owner

\* A request is allowed when one rule of the model grants it.
authorize(caller, op, m, owner) ==
    IF \E r \in Rules(m) : Grants(r, caller, op, owner) THEN "allow" ELSE "deny"

InitAccess ==
    /\ gate = [owner |-> None, caller |-> [userId |-> None, mode |-> "none", admin |-> FALSE],
               op |-> "none", model |-> "none", verdict |-> "none"]
    /\ IdleSlug /\ IdleStore /\ IdleForms /\ IdleAuth /\ IdleFeed
    /\ IdleComments /\ IdlePost /\ IdleVotes /\ IdleDates /\ IdleBrowse /\ IdleCounts

\* One request reaches the store and is decided.
Decide ==
    /\ \E caller \in Callers, op \in Operations, m \in Models, owner \in Accounts :
          gate' = [owner |-> owner, caller |-> caller, op |-> op, model |-> m,
                   verdict |-> authorize(caller, op, m, owner)]
    /\ UNCHANGED <<dateVars, seen, feedCalls, commentCounts, slugVars, storeVars, formVars,
                   feedVars, commentVars,
                   postVars, voteVars, authVars>>

NextAccess == Decide

SpecAccess == InitAccess /\ [][NextAccess]_vars

\* The request decided was sent without signing in.
Unauthenticated == gate.caller.mode \in {"apiKey", "guest"}

\* C22: a Vote is read by signed-in users only, no caller who has not signed in
\* is allowed to read one, and only the user named in a Vote's userId is
\* allowed to create, update or delete it.
VoteReadBySignedInOnly ==
    gate.model = "Vote" /\ gate.verdict = "allow" =>
        /\ gate.op = "read" => ~Unauthenticated
        /\ gate.op # "read" =>
               gate.caller.mode = "userPool" /\ gate.caller.userId = gate.owner

\* A guest has been allowed to read a Vote row.
GuestReadVote ==
    /\ gate.model = "Vote" /\ gate.op = "read"
    /\ gate.caller.mode = "guest" /\ gate.verdict = "allow"

\* C22 (amended): every signed-in user and every guest is allowed to read a
\* Vote, and only the user named in a Vote's userId is allowed to create,
\* update or delete it.
VoteReadByGuestsToo ==
    gate.model = "Vote" =>
        /\ gate.op = "read" /\ gate.caller.mode \in {"userPool", "guest"} =>
               gate.verdict = "allow"
        /\ gate.op # "read" /\ gate.verdict = "allow" =>
               gate.caller.mode = "userPool" /\ gate.caller.userId = gate.owner

---------------------------------------------------------------------------
(* The reading views: LandingPage, CityView, ChannelView and PostList      *)
(*                                                                         *)
(* No handler of these views writes to the store, so each fetch is taken   *)
(* as one step from its first store call to its last set-state call.       *)

LocationsLoadFailed == "Failed to load locations. Please try again."
CityViewLoadFailed  == "Failed to load city information. Please try again."
ChannelNotFound     == "Channel not found"
ChannelViewLoadFailed == "Failed to load channel information. Please try again."

\* "Unknown"
Unknown == <<85>>

\* The cities "a" and "b", each active or not, with equal or different slugs.
LocationTables ==
    { << [slug |-> s1, isActive |-> a1, id |-> <<1>>],
         [slug |-> s2, isActive |-> a2, id |-> <<2>>] >> :
        s1 \in {<<97>>, <<98>>}, s2 \in {<<97>>, <<98>>}, a1 \in BOOLEAN, a2 \in BOOLEAN }

\* The channel "g" of each city
BrowseChannels ==
    << [slug |-> <<103>>, isActive |-> TRUE, locationId |-> <<1>>, id |-> <<1>>],
       [slug |-> <<103>>, isActive |-> TRUE, locationId |-> <<2>>, id |-> <<2>>] >>

\* Two posts in channel 1, by user 1 and by user 2.
BrowsePosts ==
    << [isActive |-> TRUE, locationId |-> <<1>>, id |-> <<1>>, channelId |-> <<1>>, score |-> 1,
        createdAt |-> 1, authorId |-> <<1>>],
       [isActive |-> TRUE, locationId |-> <<1>>, id |-> <<2>>, channelId |-> <<1>>, score |-> 0,
        createdAt |-> 2, authorId |-> <<2>>] >>

\* An active and an inactive comment on post 1.
BrowseComments ==
    << [isActive |-> TRUE, id |-> <<1>>, score |-> 0, createdAt |-> 1, postId |-> <<1>>,
        parentCommentId |-> None, authorId |-> <<2>>],
       [isActive |-> FALSE, id |-> <<2>>, score |-> 0, createdAt |-> 2, postId |-> <<1>>,
        parentCommentId |-> None, authorId |-> <<1>>] >>

\* The UserProfile table: user 1 ("u") has a profile, user 2 has none.
Profiles == << [id |-> <<1>>, username |-> <<117>>] >>

\* The ChannelMembership table: user 1 is a member of channel 1.
Memberships == << [channelId |-> <<1>>, userId |-> <<1>>] >>

\* The user a row's owner rule names.
OwnerOf(m, r) ==
    CASE m = "UserProfile" -> r.id
      [] m \in {"Post", "Comment"} -> r.authorId
      [] m = "ChannelMembership" -> r.userId
      [] OTHER -> <<1>>

\* The reads sent with the default authorization mode in place of the API key.
ReadModeDefault == "userPool"

\* authMode: "apiKey" of every list, get and relationship read of the four views
ReadMode == "apiKey"

\* Who the store takes a read of session c to come from.
ReaderOf(c) ==
    IF ReadMode = "apiKey" THEN [userId |-> None, mode |-> "apiKey", admin |-> FALSE]
    ELSE IF user[c] = None THEN [userId |-> None, mode |-> "guest", admin |-> FALSE]
    ELSE [userId |-> user[c], mode |-> "userPool", admin |-> FALSE]

Readable(c, m, r) == authorize(ReaderOf(c), "read", m, OwnerOf(m, r)) = "allow"

\* The rows of an answer that session c is given.
Read(c, m, rows) == SelectSeq(rows, LAMBDA r : Readable(c, m, r))

\* Some row of an answer is withheld from session c.
Refused(c, m, rows) == \E i \in 1..Len(rows) : ~Readable(c, m, rows[i])

\* LandingPage.fetchLocations: Location.list({ authMode: "apiKey" }), no filter
LandingLoaded(c) ==
    LET data == Read(c, "Location", FirstPage(locations))
    IN  [locations |-> [i \in 1..Len(data) |-> [slug |-> data[i].slug, id |-> data[i].id]],
         error |-> NoError]

\* channel.posts({ authMode: "apiKey" })
PostsOf(ch) == FirstPage(SelectSeq(posts, LAMBDA r : r.channelId = ch))

\* channel.memberships({ authMode: "apiKey" })
MembershipsOf(ch) == FirstPage(SelectSeq(Memberships, LAMBDA r : r.channelId = ch))

\* The channel card of CityView with its postCount and memberCount
ChannelCard(c, r) ==
    [slug |-> r.slug, id |-> r.id,
     memberCount |-> Len(Read(c, "ChannelMembership", MembershipsOf(r.id))),
     postCount |-> Len(Read(c, "Post", PostsOf(r.id)))]

\* CityView.fetchLocationAndChannels
CityLoaded(c, s) ==
    LET data == Read(c, "Location", ListActiveLocationsBySlug(s))
    IN  IF ~HasRows(data)
        THEN [channels |-> <<>>, location |-> None, error |-> CityNotFound]
        ELSE LET chans == Read(c, "Channel", ListActiveChannelsOf(data[1].id))
             IN  [channels |-> [i \in 1..Len(chans) |-> ChannelCard(c, chans[i])],
                  location |-> data[1].id, error |-> NoError]

\* Channel.list({ filter: { slug, locationId, isActive: true } })
ListActiveChannelsBySlug(s, l) ==
    FirstPage(SelectSeq(channels, LAMBDA r : r.slug = s /\ r.locationId = l /\ r.isActive))

\* ChannelView.fetchLocationAndChannel
ChannelLoaded(c, a) ==
    LET data == Read(c, "Location", ListActiveLocationsBySlug(a.citySlug))
    IN  IF ~HasRows(data)
        THEN [location |-> None, error |-> CityNotFound, channel |-> None]
        ELSE LET chans == Read(c, "Channel",
                               ListActiveChannelsBySlug(a.channelSlug, data[1].id))
             IN  IF ~HasRows(chans)
                 THEN [location |-> data[1].id, error |-> ChannelNotFound, channel |-> None]
                 ELSE [location |-> data[1].id, error |-> NoError, channel |-> chans[1].id]

\* UserProfile.get({ id }, { authMode: "apiKey" }) and the author summary
AuthorSummary(c, id) ==
    LET found == Read(c, "UserProfile", SelectSeq(Profiles, LAMBDA r : r.id = id))
    IN  [id |-> id, username |-> IF HasRows(found) THEN found[1].username ELSE Unknown]

\* Channel.get({ id }, { authMode: "apiKey" }) and channelInfo
ChannelInfo(c, p, r) ==
    IF p.channelId = None /\ r.channelId # None
    THEN LET found == Read(c, "Channel", SelectSeq(channels, LAMBDA ch : ch.id = r.channelId))
         IN  IF HasRows(found) THEN [slug |-> found[1].slug, id |-> found[1].id] ELSE None
    ELSE None

\* (await post.comments({ authMode: "apiKey" })).data.length || 0
CommentCount(c, postId) ==
    Len(Read(c, "Comment", FirstPage(SelectSeq(comments, LAMBDA r : r.postId = postId))))

\* The entry of postData for one row
PostCard(c, p, r) ==
    [id |-> r.id, score |-> r.score, createdAt |-> r.createdAt,
     commentCount |-> CommentCount(c, r.id), channel |-> ChannelInfo(c, p, r),
     author |-> AuthorSummary(c, r.authorId)]

\* PostList.fetchPosts
PostsLoaded(c, p) ==
    LET data == Read(c, "Post", ListPosts(p))
    IN  [posts |-> SortPosts([i \in 1..Len(data) |-> PostCard(c, p, data[i])]),
         error |-> NoError]

\* The entry of commentData for one row
CommentCard(c, r) ==
    [id |-> r.id, score |-> r.score, createdAt |-> r.createdAt,
     author |-> AuthorSummary(c, r.authorId)]

\* PostList.fetchComments
CommentsLoaded(c, postId) ==
    LET data == Read(c, "Comment", ListComments(postId))
    IN  [error |-> NoError,
         comments |-> SortComments([i \in 1..Len(data) |-> CommentCard(c, data[i])])]

\* Some read made for the view is refused by the schema's rules.
ReadRefused(c) ==
    \/ Refused(c, "Location", locations)
    \/ Refused(c, "Channel", channels)
    \/ Refused(c, "Post", posts)
    \/ Refused(c, "Comment", comments)
    \/ Refused(c, "UserProfile", Profiles)
    \/ Refused(c, "ChannelMembership", Memberships)

InitBrowse ==
    /\ locations \in LocationTables
    /\ channels = BrowseChannels
    /\ posts = BrowsePosts
    /\ comments = BrowseComments
    /\ user = ("c1" :> None) @@ ("c2" :> <<1>>)
    /\ cuser = [c \in Clients |-> None]
    /\ seen = [c \in Clients |->
                 [data |-> <<>>, view |-> "none", arg |-> None, fault |-> FALSE,
                  refused |-> FALSE]]
    /\ props = <<>>
    /\ feedPc = "off"
    /\ feed = <<>>
    /\ feedLoading = FALSE
    /\ feedError = NoError
    /\ expanded = FALSE
    /\ commentsOf = <<>>
    /\ comFetches = 0
    /\ newComments = <<>>
    /\ comPc = "off"
    /\ viewer = None
    /\ ccomment = None
    /\ IdleSlug /\ IdleForms /\ IdlePost /\ IdleVotes /\ IdleDates /\ IdleGate /\ IdleCounts

\* Session c now shows the view with what its fetch loaded.
Show(c, view, arg, data, fault) ==
    /\ seen' = [seen EXCEPT ![c] = [data |-> data, view |-> view, arg |-> arg, fault |-> fault,
                                    refused |-> ReadRefused(c)]]
    /\ UNCHANGED <<dateVars, gate, feedCalls, commentCounts, slugVars, storeVars, formVars,
                   feedVars, commentVars,
                   postVars, voteVars, authVars>>

\* LandingPage mounts: fetchLocations
OpenLanding(c) ==
    \/ Show(c, "landing", None, LandingLoaded(c), FALSE)
    \/ Show(c, "landing", None, [locations |-> <<>>, error |-> LocationsLoadFailed], TRUE)

\* CityView mounts at /city/:citySlug: fetchLocationAndChannels
OpenCity(c, s) ==
    \/ Show(c, "city", s, CityLoaded(c, s), FALSE)
    \/ Show(c, "city", s,
            [channels |-> <<>>, location |-> None, error |-> CityViewLoadFailed], TRUE)

\* ChannelView mounts at /city/:citySlug/channel/:channelSlug
OpenChannel(c, a) ==
    \/ Show(c, "channel", a, ChannelLoaded(c, a), FALSE)
    \/ Show(c, "channel", a,
            [location |-> None, error |-> ChannelViewLoadFailed, channel |-> None], TRUE)

\* PostList mounts with props p: fetchPosts
OpenPosts(c, p) ==
    \/ Show(c, "posts", p, PostsLoaded(c, p), FALSE)
    \/ Show(c, "posts", p, [posts |-> <<>>, error |-> FetchFailed], TRUE)

\* toggleComments(postId) -> fetchComments(postId)
OpenComments(c, postId) ==
    \/ Show(c, "comments", postId, CommentsLoaded(c, postId), FALSE)
    \/ Show(c, "comments", postId, [error |-> NoError, comments |-> <<>>], TRUE)

NextBrowse ==
    \E c \in Clients :
        \/ OpenLanding(c)
        \/ \E s \in {<<97>>, <<98>>} : OpenCity(c, s)
        \/ \E s \in {<<97>>, <<98>>} : OpenChannel(c, [citySlug |-> s, channelSlug |-> <<103>>])
        \/ \E p \in Scopes : OpenPosts(c, p)
        \/ OpenComments(c, ThePost)

SpecBrowse == InitBrowse /\ [][NextBrowse]_vars

\* Sessions c1 and c2 show the same view of the same thing, loaded without a
\* store fault.
SameView(c1, c2) ==
    /\ seen[c1].view = seen[c2].view /\ seen[c1].view # "none"
    /\ seen[c1].arg = seen[c2].arg
    /\ ~seen[c1].fault /\ ~seen[c2].fault

\* C21: what LandingPage, CityView, ChannelView and PostList load from one store
\* state is the same for a guest and for a signed-in user, and no read made for
\* these views is refused by the schema's rules.
GuestsSeeWhatMembersSee ==
    /\ \A c1, c2 \in Clients : SameView(c1, c2) => seen[c1].data = seen[c2].data
    /\ \A c \in Clients : ~seen[c].refused

\* The guest and the signed-in user both show the posts of city 1, with the
\* author and channel summaries and the comment count of post 1.
GuestAndMemberShowPosts ==
    /\ user["c1"] = None /\ user["c2"] # None
    /\ seen["c1"].view = "posts" /\ seen["c2"].view = "posts"
    /\ ~seen["c1"].fault /\ ~seen["c2"].fault
    /\ seen["c1"].arg = [locationId |-> <<1>>, channelId |-> None]
    /\ seen["c2"].arg = seen["c1"].arg
    /\ Len(seen["c1"].data.posts) = 2
    /\ seen["c1"].data.posts[1].author.username = <<117>>
    /\ seen["c1"].data.posts[1].channel = [slug |-> <<103>>, id |-> <<1>>]
    /\ seen["c1"].data.posts[1].commentCount = 2

\* C28: every Location the landing page lists opens: CityView for its slug
\* shows that Location, not "City not found" and not another Location.
ListedLocationsOpen ==
    \A c1, c2 \in Clients :
        /\ seen[c1].view = "landing" /\ ~seen[c1].fault
        /\ seen[c2].view = "city" /\ ~seen[c2].fault
        => \A i \in 1..Len(seen[c1].data.locations) :
               seen[c1].data.locations[i].slug = seen[c2].arg
                   => seen[c2].data.location = seen[c1].data.locations[i].id

---------------------------------------------------------------------------
(* Claims about what a failed submit leaves behind *)

\* The messages the create forms show.
SubmitMessages ==
    {CityNameRequired, StateRequired, CityExists, CityCreateFailed,
     ChannelNameRequired, LocationNotFound, ChannelExists, ChannelCreateFailed,
     PostTitleRequired, PostContentRequired, LinkUrlRequired, ChannelRequired,
     PostCreateFailed}

\* A handleSubmit of session c ends on the form it was sent from: nothing was
\* created and the session did not navigate away.
SubmitEndsOnForm(c) == pc[c] # "idle" /\ pc'[c] = "idle" /\ route'[c] = route[c]

\* C23: a submit of CreateCity, CreateChannel or CreatePost that ends without
\* creating the entity and navigating away leaves one of the forms' fixed
\* messages in the error state.
FailedSubmitReported ==
    [][\A c \in Clients : SubmitEndsOnForm(c) => error'[c] \in SubmitMessages]_vars

---------------------------------------------------------------------------
(* Every store call answers: one session submitting cities and channels    *)
(* and loading the data of the three create forms, and a PostList          *)

InitLive ==
    /\ locations = << [slug |-> <<97>>, isActive |-> TRUE, id |-> <<1>>, owner |-> <<1>>] >>
    /\ channels = << SeededChannel(1) >>
    /\ InitForms
    /\ InitPost
    /\ posts = <<>>
    /\ props = [locationId |-> <<1>>, channelId |-> None]
    /\ feedPc = "mounted"
    /\ feed = <<>>
    /\ feedLoading = TRUE
    /\ feedError = NoError
    /\ IdleSlug /\ IdleComments /\ IdleVotes /\ IdleLate

\* What the session's user does.
UserActs(c) ==
    \/ OpenCreateCity(c)
    \/ \E s \in {<<97>>, <<98>>} : OpenCreateChannel(c, s)
    \/ OpenCreatePost(c, <<97>>, None)
    \/ HandleInputChange(c, <<97>>)
    \/ CitySubmit(c, <<77, 73>>)
    \/ ChannelSubmit(c)
    \/ PostCancel(c)

\* A store call of a handleSubmit of the session returns or throws.
SubmitAnswers(c) ==
    \/ CityListResp(c)
    \/ CityCreateResp(c)
    \/ ChannelListResp(c)
    \/ ChannelCreateResp(c)
    \/ \E how \in Faults : CityListFails(c, how)
    \/ \E how \in Faults : CityCreateFails(c, how)
    \/ \E how \in Faults : ChannelListFails(c, how)
    \/ \E how \in Faults : ChannelCreateFails(c, how)

\* The Location.list of CreateChannel.fetchLocation returns or throws.
FetchAnswers(c) ==
    \/ FetchLocationResp(c)
    \/ \E how \in Faults : FetchLocationFails(c, how)

\* The fetchLocationAndChannels calls CreatePost can have in flight.
PostFetches ==
    {Fetch(<<97>>, None, "location", None), Fetch(<<97>>, None, "channels", <<1>>)}

\* The store call that fetch f of CreatePost awaits returns or throws.
PostFetchAnswers(c, f) ==
    \/ PostLocationResp(c, f)
    \/ PostChannelsResp(c, f)
    \/ \E how \in Faults : PostFetchFails(c, f, how)

\* The effect of PostList runs, and its Post.list returns or throws.
FeedSteps ==
    \/ FetchPostsStart
    \/ FetchPostsResp
    \/ \E how \in Faults : FetchPostsFails(how)

NextLive ==
    \/ \E c \in Posters : UserActs(c) \/ SubmitAnswers(c) \/ FetchAnswers(c)
    \/ \E c \in Posters : \E f \in PostFetches : PostFetchAnswers(c, f)
    \/ FeedSteps

\* Every store call eventually returns or throws, and a mounted component's
\* effect runs.
SpecLive ==
    /\ InitLive /\ [][NextLive]_vars
    /\ \A c \in Posters : WF_vars(SubmitAnswers(c)) /\ WF_vars(FetchAnswers(c))
    /\ \A c \in Posters : \A f \in PostFetches : WF_vars(PostFetchAnswers(c, f))
    /\ WF_vars(FeedSteps)

\* C24: no loading flag stays true forever: the loading of a submit, the
\* locationLoading / dataLoading of a form's fetch and the loading of PostList
\* each become false again.
LoadingEnds ==
    /\ \A c \in Posters : loading[c] ~> ~loading[c]
    /\ \A c \in Posters : locationLoading[c] ~> ~locationLoading[c]
    /\ feedLoading ~> ~feedLoading

\* A city submit has ended on a duplicate slug with its loading flag cleared.
DuplicateSubmitEnded ==
    \E c \in Posters : error[c] = CityExists /\ ~loading[c] /\ pc[c] = "idle"

---------------------------------------------------------------------------
(* PostList when its props change while fetchPosts is in flight            *)

\* Two active posts, each in one of the two homes, with score 0 or 1.
ScopeTables ==
    { << PostRow(1, a1), PostRow(2, a2) >> :
        a1 \in {a \in PostAttrs : a.isActive /\ a.createdAt = 1},
        a2 \in {a \in PostAttrs : a.isActive /\ a.createdAt = 2} }

\* PostList has mounted and its effect has started the first fetchPosts.
InitScopes ==
    /\ posts \in ScopeTables
    /\ props \in Scopes
    /\ feedCalls = {props}
    /\ feedPc = "listing"
    /\ feed = <<>>
    /\ feedLoading = TRUE
    /\ feedError = NoError
    /\ commentCounts = <<>>
    /\ IdleSlug /\ IdleStore /\ IdleForms /\ IdleAuth
    /\ IdleComments /\ IdlePost /\ IdleVotes /\ IdleDates /\ IdleGate /\ IdleBrowse

\* The parent renders PostList with other props: the effect on [locationId,
\* channelId] calls fetchPosts again, up to the await of Post.list.  The call
\* in flight is neither cancelled nor told apart from the new one.
ScopeChanges(p) ==
    /\ p # props
    /\ p \notin feedCalls
    /\ Cardinality(feedCalls) < MaxFetches
    /\ props' = p
    /\ feedCalls' = feedCalls \cup {p}
    /\ feedLoading' = TRUE
    /\ feedPc' = "listing"
    /\ UNCHANGED <<posts, feed, feedError, commentCounts, dateVars, gate, seen, slugVars,
                   storeVars, formVars, commentVars, postVars, voteVars, authVars>>

\* A fetchPosts call from the answer of its Post.list on: the filter is the one
\* built from the props the call was started with.
ScopedPostsResp(call) ==
    /\ call \in feedCalls
    /\ LET data == ListPosts(call)
           postData == [i \in 1..Len(data) |-> PostSummary(data[i])]
       IN  /\ feed' = SortPosts(postData)
           /\ commentCounts' = CountsOf(data)
    /\ feedLoading' = FALSE
    /\ feedCalls' = feedCalls \ {call}
    /\ feedPc' = IF feedCalls' = {} THEN "settled" ELSE "listing"
    /\ UNCHANGED <<posts, props, feedError, dateVars, gate, seen, slugVars, storeVars,
                   formVars, commentVars, postVars, voteVars, authVars>>

NextScopes ==
    \/ \E p \in Scopes : ScopeChanges(p)
    \/ \E call \in feedCalls : ScopedPostsResp(call)

\* One PostList whose props change; every Post.list answers with data.
SpecScopes == InitScopes /\ [][NextScopes]_vars

\* C25: once every fetchPosts call has settled, PostList shows the posts of
\* the props it has now, whatever the order of the answers.
SettledFeedIsOfLatestScope ==
    feedCalls = {} =>
        LET data == ListPosts(props)
        IN  feed = SortPosts([i \in 1..Len(data) |-> PostSummary(data[i])])

---------------------------------------------------------------------------
(* PostList showing one post, its comment count and its comments, with a   *)
(* signed-in viewer who comments; store calls may fail                     *)

\* Post 1 with no comment, with an active one, or with an inactive one.
ThreadsOfOne ==
    { <<>> }
    \cup { << CommentRow(1, [isActive |-> act, score |-> 0, createdAt |-> 1,
                              postId |-> ThePost]) >> : act \in BOOLEAN }

InitCommenting ==
    /\ posts = << PostRow(1, [isActive |-> TRUE,
                              home |-> [locationId |-> <<1>>, channelId |-> <<1>>], score |-> 0,
                              createdAt |-> 1]) >>
    /\ props = [locationId |-> None, channelId |-> None]
    /\ feedPc = "mounted"
    /\ feed = <<>>
    /\ feedLoading = TRUE
    /\ feedError = NoError
    /\ comments \in ThreadsOfOne
    /\ expanded = FALSE
    /\ commentsOf = <<>>
    /\ comFetches = 0
    /\ newComments = <<>>
    /\ comPc = "idle"
    /\ viewer \in UserIds
    /\ ccomment = None
    /\ IdleSlug /\ IdleStore /\ IdleForms /\ IdleAuth /\ IdlePost /\ IdleVotes /\ IdleLate

\* The post is rendered: fetchPosts has set it.
PostShown == \E i \in 1..Len(feed) : feed[i].id = ThePost

NextCommenting ==
    \/ FetchPostsStart
    \/ FetchPostsResp
    \/ \E how \in Faults : FetchPostsFails(how)
    \/ PostShown /\ ToggleComments
    \/ FetchCommentsResp
    \/ \E how \in Faults : FetchCommentsFails(how)
    \/ PostShown /\ SetNewComment(<<32, 120>>)
    \/ PostShown /\ Len(comments) < MaxWritten + 1 /\ HandleCommentSubmit
    \/ CommentCreateResp
    \/ \E how \in Faults : CommentCreateFails(how)

SpecCommenting == InitCommenting /\ [][NextCommenting]_vars

\* C26: a handleCommentSubmit whose Comment.create adds no row, because it
\* throws or because it answers with errors and no data, leaves the draft as
\* it was.
DraftKeptUnlessCreated ==
    [][comPc = "creating" /\ comPc' = "idle" /\ comments' = comments
          => Draft' = Draft]_vars

\* Nothing of PostList is in flight.
PostListAtRest == feedPc \in {"settled", "failed"} /\ comFetches = 0 /\ comPc = "idle"

\* C27: once the comments of a post shown are loaded, the commentCount shown
\* for the post is the number of comments listed under it.
CountIsNumberListed ==
    PostListAtRest /\ PostShown /\ Loaded
        => commentCounts[ThePost] = Len(Shown)

====
